---------------------------- MODULE Spec2Model ----------------------------
(***************************************************************************)
(* Workflow dispatch (handler registry, action-menu and basic-message      *)
(* handlers) and the Kanon OCA bundle resolver of the chat screen.         *)
(*                                                                         *)
(* Several state machines share this module:                               *)
(*   SpecRegistry    handlers are registered, a record is classified and   *)
(*                   a handler's shouldDisplay is asked;                   *)
(*   SpecProjection  handlers are registered and records are projected to  *)
(*                   chat messages (toMessage, normalize);                 *)
(*   SpecResolver    resolve / resolveAllBundles calls of one              *)
(*                   KanonOCABundleResolver run interleaved on the event   *)
(*                   loop, suspended at each await;                        *)
(*   SpecOverlay     one overlay is converted to an OCA bundle and back to *)
(*                   the compact form, for every overlay of a bounded set; *)
(*   SpecCredential  detectCredentialType on one credential;               *)
(*   SpecChat        the action list of the Chat screen;                   *)
(*   SpecPress       the wiring of the action-menu handler and one         *)
(*                   handleActionButtonPress call, suspended at each       *)
(*                   await;                                                *)
(*   SpecLinks       the tappable links of one plain-text message;         *)
(*   SpecMemo        one record that is classified, projected and modified *)
(*                   in place under the action-menu handler;               *)
(*   SpecCache       the resolver under call sequences of any length;      *)
(*   SpecHeader      the header of the Chat screen and its bell;           *)
(*   SpecShared      one action-menu handler shared by several chats.      *)
(* Spec is all of them side by side.                                       *)
(***************************************************************************)
EXTENDS Naturals, Sequences, FiniteSets, TLC

VARIABLES
    handlers,        \* registry: the ordered list of registered handlers
    rec,             \* the exchange record under classification
    classified,      \* outcome of the last classify call
    shown,           \* outcome of the last shouldDisplay call
    message,         \* outcome of the last toMessage / normalize call
    menuHandler,     \* the collaborators set on the ActionMenuWorkflowHandler
    agent,           \* KanonOCABundleResolver.agent is set (non-null)
    cachedOverlays,  \* KanonOCABundleResolver.cachedOverlays
    remote,          \* what the ledger holds as credentialDefinitionMetadata
    calls,           \* the resolve / resolveAllBundles calls, by call number
    fetchCount,      \* getCredentialDefinition invocations per id
    conv,            \* one overlay on its way through the two conversions
    credential,      \* the credential handed to detectCredentialType
    displayType,     \* what detectCredentialType returned for it
    chat,            \* the Chat screen: preference, registry, agent, actions memo
    press,           \* the handleActionButtonPress call and what it did
    bubble,          \* a plain-text message: its links, spans and opened targets
    header,          \* the Chat screen's header: config, icons, the bell's press
    menuBubbles      \* the rendered action menus, by connection, and the one pressed

registryVars == <<handlers, rec, classified, shown, message, menuHandler>>
resolverVars == <<agent, cachedOverlays, remote, calls, fetchCount>>
credentialVars == <<credential, displayType>>
\* the parts beside the registry, the resolver and the conversions
restVars == <<credentialVars, chat, press, bubble, header, menuBubbles>>
vars == <<handlers, rec, classified, shown, message, menuHandler,
          agent, cachedOverlays, remote, calls, fetchCount, conv,
          credential, displayType, chat, press, bubble, header, menuBubbles>>

---------------------------------------------------------------------------
(* Bounds of the model *)

MaxHandlers == 3
MaxCalls == 2

---------------------------------------------------------------------------
(* JavaScript values that the overlay fields can hold.  Every value is a   *)
(* record of the same shape; for an object, v is its `color` property.     *)

Undef == [t |-> "undefined", v |-> ""]
Str(s) == [t |-> "string", v |-> s]
ColorObj(c) == [t |-> "object", v |-> c]

\* JavaScript truthiness: undefined and '' are falsy, objects are truthy
Truthy(x) == x.t = "object" \/ (x.t = "string" /\ x.v # "")

\* a || b
JsOr(a, b) == IF Truthy(a) THEN a ELSE b

\* o[k] for an object given as a function: a missing key reads undefined
Get(o, k) == IF k \in DOMAIN o THEN o[k] ELSE Undef

---------------------------------------------------------------------------
(* Exchange records and their content *)

NoMenu == [ok |-> FALSE, workflowID |-> "", items |-> <<>>]

\* an item of displayData; JSON lets an item be null
Item(type, text) == [null |-> FALSE, type |-> type, text |-> text]
NullItem == [null |-> TRUE, type |-> "", text |-> ""]

MenuFull == "{\"displayData\":[{\"type\":\"title\",\"text\":\"Menu\"}],\"workflowID\":\"w1\"}"
MenuBare == "{\"displayData\":[]}"
MenuNull == "{\"displayData\":[null]}"
MenuAck == "{\"displayData\":[{\"type\":\"text\",\"text\":\"We received your message\"}],\"workflowID\":\"w1\"}"
ActionJson == "{\"workflowID\":\"w1\",\"actionID\":\"a1\",\"data\":{}}"
ActionJsonNoWorkflow == "{\"workflowID\":\"\",\"actionID\":\"a1\",\"data\":{}}"
NotArrayJson == "{\"displayData\":\"x\"}"
AckJson == "\"Received your message\""

Contents ==
    { "hello", ":menu", "received your message", AckJson, "null", "0", "42",
      "[1]", "{}", NotArrayJson, ActionJson, MenuFull, MenuBare, MenuAck, MenuNull }

\* JSON.parse(content): ok is FALSE when it throws; truthy is the parsed
\* value's truthiness; displayData tells whether parsed.displayData is an
\* array, some other value, or undefined.
Parsed(ok, truthy, dd, wf, items) ==
    [ok |-> ok, truthy |-> truthy, displayData |-> dd, workflowID |-> wf, items |-> items]

JsonParse(content) ==
    CASE content = "null" -> Parsed(TRUE, FALSE, "undefined", Undef, <<>>)
      [] content = "0" -> Parsed(TRUE, FALSE, "undefined", Undef, <<>>)
      [] content = "42" -> Parsed(TRUE, TRUE, "undefined", Undef, <<>>)
      [] content = AckJson -> Parsed(TRUE, TRUE, "undefined", Undef, <<>>)
      [] content = "[1]" -> Parsed(TRUE, TRUE, "undefined", Undef, <<>>)
      [] content = "{}" -> Parsed(TRUE, TRUE, "undefined", Undef, <<>>)
      [] content = NotArrayJson -> Parsed(TRUE, TRUE, "other", Undef, <<>>)
      [] content = ActionJson -> Parsed(TRUE, TRUE, "undefined", Str("w1"), <<>>)
      [] content = ActionJsonNoWorkflow -> Parsed(TRUE, TRUE, "undefined", Str(""), <<>>)
      [] content = MenuFull ->
            Parsed(TRUE, TRUE, "array", Str("w1"), <<Item("title", "Menu")>>)
      [] content = MenuBare -> Parsed(TRUE, TRUE, "array", Undef, <<>>)
      [] content = MenuNull -> Parsed(TRUE, TRUE, "array", Undef, <<NullItem>>)
      [] content = MenuAck ->
            Parsed(TRUE, TRUE, "array", Str("w1"),
                   <<Item("text", "We received your message")>>)
      [] OTHER -> Parsed(FALSE, FALSE, "undefined", Undef, <<>>)

\* content.toLowerCase().includes('received your message')
IncludesReceived(content) ==
    content \in {"received your message", AckJson, MenuAck}

RecordKinds ==
    {"BasicMessageRecord", "CredentialExchangeRecord", "ProofExchangeRecord", "Other"}

Roles == {"sender", "receiver"}

MkRecord(kind, role, content) ==
    [id |-> "r1", createdAt |-> 1, kind |-> kind, role |-> role,
     content |-> content, parsedActionMenu |-> NoMenu]

Records ==
    { MkRecord("BasicMessageRecord", r, c) : r \in Roles, c \in Contents }
    \cup { MkRecord(k, r, "") :
             k \in RecordKinds \ {"BasicMessageRecord"}, r \in Roles }

---------------------------------------------------------------------------
(* ActionMenuWorkflowHandler *)

\* parseActionMenu with a slip: an empty displayData array is refused
parseActionMenuNonEmpty(r) ==
    LET p == JsonParse(r.content) IN
    IF p.ok /\ p.truthy /\ p.displayData = "array" /\ Len(p.items) > 0
    THEN [ok |-> TRUE,
          workflowID |-> IF p.workflowID = Undef THEN "" ELSE p.workflowID.v,
          items |-> p.items]
    ELSE NoMenu

\* parseActionMenu: the menu, or NoMenu for undefined
parseActionMenu(r) ==
    LET p == JsonParse(r.content) IN
    IF p.ok /\ p.truthy /\ p.displayData = "array"
    THEN [ok |-> TRUE,
          workflowID |-> IF p.workflowID = Undef THEN "" ELSE p.workflowID.v,
          items |-> p.items]
    ELSE NoMenu

ActionMenuCanHandle(r) ==
    /\ r.kind = "BasicMessageRecord"
    /\ parseActionMenu(r).ok

\* the record after canHandle ran on it: the parse is attached on success
ActionMenuAttach(r) ==
    IF ActionMenuCanHandle(r)
    THEN [r EXCEPT !.parsedActionMenu = parseActionMenu(r)]
    ELSE r

ActionMenuGetRole(r) == IF r.role = "sender" THEN "me" ELSE "them"

\* shouldDisplay with a slip: the role is not looked at
ActionMenuShouldDisplayAnyRole(r) == ActionMenuGetRole(r) \in {"me", "them"}

ActionMenuShouldDisplay(r) == ActionMenuGetRole(r) = "them"

---------------------------------------------------------------------------
(* BasicMessageWorkflowHandler *)

\* isActionMenuMessage with a slip: any displayData field counts as a menu
isActionMenuMessageAnyDisplayData(r) ==
    LET p == JsonParse(r.content) IN
    p.ok /\ p.truthy /\ p.displayData # "undefined"

isActionMenuMessage(r) ==
    LET p == JsonParse(r.content) IN
    p.ok /\ p.truthy /\ p.displayData = "array"

isJsonMessage(content) == JsonParse(content).ok

BasicMessageCanHandle(r) ==
    /\ r.kind = "BasicMessageRecord"
    /\ ~isActionMenuMessage(r)

BasicMessageGetRole(r) == IF r.role = "sender" THEN "me" ELSE "them"

\* shouldDisplay with a slip: JSON content is hidden whoever sent it
BasicMessageShouldDisplayAnyRole(r) ==
    LET role == BasicMessageGetRole(r) IN
    IF role = "me" /\ r.content = ":menu" THEN FALSE
    ELSE IF IncludesReceived(r.content) THEN FALSE
    ELSE IF isJsonMessage(r.content) THEN FALSE
    ELSE TRUE

BasicMessageShouldDisplay(r) ==
    LET role == BasicMessageGetRole(r) IN
    IF role = "me" /\ r.content = ":menu" THEN FALSE
    ELSE IF IncludesReceived(r.content) THEN FALSE
    ELSE IF role = "me" /\ isJsonMessage(r.content) THEN FALSE
    ELSE TRUE

---------------------------------------------------------------------------
(* Handler registry *)

HandlerIds == {"menu1", "basic1", "basic2", "cred1", "proof1"}

TypeOf(h) ==
    CASE h = "menu1" -> "ActionMenu"
      [] h \in {"basic1", "basic2"} -> "BasicMessage"
      [] h = "cred1" -> "Credential"
      [] OTHER -> "Proof"

CredentialCanHandle(r) == r.kind = "CredentialExchangeRecord"
ProofCanHandle(r) == r.kind = "ProofExchangeRecord"

canHandle(h, r) ==
    CASE TypeOf(h) = "ActionMenu" -> ActionMenuCanHandle(r)
      [] TypeOf(h) = "BasicMessage" -> BasicMessageCanHandle(r)
      [] TypeOf(h) = "Credential" -> CredentialCanHandle(r)
      [] OTHER -> ProofCanHandle(r)

shouldDisplay(h, r) ==
    CASE TypeOf(h) = "ActionMenu" -> ActionMenuShouldDisplay(r)
      [] TypeOf(h) = "BasicMessage" -> BasicMessageShouldDisplay(r)
      [] OTHER -> TRUE

\* classify walks the list from the front; 0 stands for none
RECURSIVE classifyFrom(_, _, _)
classifyFrom(hs, r, i) ==
    IF i > Len(hs) THEN 0
    ELSE IF canHandle(hs[i], r) THEN i
    ELSE classifyFrom(hs, r, i + 1)

\* classify with a slip: the walk goes on to the last handler that accepts
RECURSIVE classifyLastFrom(_, _, _)
classifyLastFrom(hs, r, i) ==
    IF i < 1 THEN 0
    ELSE IF canHandle(hs[i], r) THEN i
    ELSE classifyLastFrom(hs, r, i - 1)

classifyLast(hs, r) == classifyLastFrom(hs, r, Len(hs))

classify(hs, r) == classifyFrom(hs, r, 1)

\* the record once classify has called canHandle on the handlers it visited
RecordAfterClassify(hs, r) ==
    LET i == classify(hs, r) IN
    IF i # 0 /\ TypeOf(hs[i]) = "ActionMenu" THEN ActionMenuAttach(r) ELSE r

\* Projection of a record to a chat message (toMessage)

\* the collaborators of the action-menu handler; "" is an unset connection
NewMenuHandler ==
    [agent |-> FALSE, connectionId |-> "", navigation |-> FALSE,
     logger |-> FALSE, t |-> FALSE]

ConnectionIds == {"c1", "c2"}

\* the connection and the MessageContext handed to toMessage
MessageContext(hasAgent, connectionId, navigation, logger, t) ==
    [agent |-> hasAgent, connectionId |-> connectionId, navigation |-> navigation,
     logger |-> logger, t |-> t]

MessageContexts ==
    { MessageContext(TRUE, "c1", TRUE, TRUE, TRUE),
      MessageContext(TRUE, "c2", TRUE, TRUE, TRUE),
      MessageContext(FALSE, "", FALSE, FALSE, TRUE) }

\* toMessage fills in the collaborators that are not set yet
ConfigureFromContext(h, ctx) ==
    [agent |-> h.agent \/ ctx.agent,
     connectionId |-> IF ctx.connectionId # "" /\ h.connectionId = ""
                      THEN ctx.connectionId ELSE h.connectionId,
     navigation |-> h.navigation \/ ctx.navigation,
     logger |-> h.logger \/ ctx.logger,
     t |-> h.t \/ ctx.t]

\* what a projection gives: a message, or a thrown error
NoMessage ==
    [ran |-> FALSE, via |-> "", by |-> "none", accepted |-> FALSE, outcome |-> "none",
     id |-> "", text |-> "", createdAt |-> 0, user |-> "", render |-> ""]

ChatMessage(id, text, createdAt, user, render) ==
    [outcome |-> "message", id |-> id, text |-> text, createdAt |-> createdAt,
     user |-> user, render |-> render]

Thrown == [outcome |-> "throws", id |-> "", text |-> "", createdAt |-> 0,
           user |-> "", render |-> ""]

\* record._parsedActionMenu ?? this.parseActionMenu(record)
parsedOrParse(r) == IF r.parsedActionMenu.ok THEN r.parsedActionMenu ELSE parseActionMenu(r)

FirstIndex(items, P(_)) ==
    IF \E i \in 1..Len(items) : P(items[i])
    THEN CHOOSE i \in 1..Len(items) : P(items[i]) /\ \A j \in 1..(i - 1) : ~P(items[j])
    ELSE Len(items) + 1

\* getLabel: find reads item.type of each item up to the first title, which
\* throws on a null item; "throws" stands for the TypeError
getLabel(r) ==
    LET parsed == parsedOrParse(r)
        IsNull(item) == item.null
        IsTitle(item) == ~item.null /\ item.type = "title"
        firstNull == FirstIndex(parsed.items, IsNull)
        firstTitle == FirstIndex(parsed.items, IsTitle)
    IN  IF ~parsed.ok THEN [throws |-> FALSE, text |-> "Action Menu"]
        ELSE IF firstNull < firstTitle THEN [throws |-> TRUE, text |-> ""]
        ELSE IF firstTitle <= Len(parsed.items)
             THEN [throws |-> FALSE, text |-> parsed.items[firstTitle].text]
        ELSE [throws |-> FALSE, text |-> "Action Menu"]

ActionMenuToMessage(r) ==
    LET parsed == parsedOrParse(r) IN
    IF ~parsed.ok
    THEN ChatMessage(r.id, r.content, r.createdAt, ActionMenuGetRole(r), "fallback")
    ELSE IF getLabel(r).throws THEN Thrown
    ELSE ChatMessage(r.id, getLabel(r).text, r.createdAt, ActionMenuGetRole(r), "menu")

BasicMessageToMessage(r) ==
    ChatMessage(r.id, r.content, r.createdAt, BasicMessageGetRole(r), "text")

\* the credential and proof handlers project to a card
CardToMessage(r) ==
    ChatMessage(r.id, "", r.createdAt, IF r.role = "sender" THEN "me" ELSE "them", "card")

toMessage(h, r) ==
    CASE TypeOf(h) = "ActionMenu" -> ActionMenuToMessage(r)
      [] TypeOf(h) = "BasicMessage" -> BasicMessageToMessage(r)
      [] OTHER -> CardToMessage(r)

\* the outcome of a projection, with who made it
Projected(via, h, r, m) ==
    [ran |-> TRUE, via |-> via, by |-> h, accepted |-> canHandle(h, r),
     outcome |-> m.outcome, id |-> m.id, text |-> m.text, createdAt |-> m.createdAt,
     user |-> m.user, render |-> m.render]

NotClassified == [ran |-> FALSE, n |-> 0, index |-> 0, handler |-> "none"]
NotShown == [ran |-> FALSE, handler |-> "none", value |-> FALSE]

InitRegistry ==
    /\ handlers = <<>>
    /\ rec \in Records
    /\ classified = NotClassified
    /\ shown = NotShown
    /\ message = NoMessage
    /\ menuHandler = NewMenuHandler

Register(h) ==
    /\ Len(handlers) < MaxHandlers
    /\ handlers' = Append(handlers, h)
    /\ UNCHANGED <<rec, classified, shown, message, menuHandler>>

Classify ==
    /\ LET i == classify(handlers, rec) IN
         classified' = [ran |-> TRUE, n |-> Len(handlers), index |-> i,
                        handler |-> IF i = 0 THEN "none" ELSE handlers[i]]
    /\ rec' = RecordAfterClassify(handlers, rec)
    /\ UNCHANGED <<handlers, shown, message, menuHandler>>

\* a registered basic-message or action-menu handler that accepts the record
\* is asked whether the record is to be displayed
ShouldDisplay(i) ==
    /\ TypeOf(handlers[i]) \in {"ActionMenu", "BasicMessage"}
    /\ canHandle(handlers[i], rec)
    /\ shown' = [ran |-> TRUE, handler |-> handlers[i],
                 value |-> shouldDisplay(handlers[i], rec)]
    /\ UNCHANGED <<handlers, rec, classified, message, menuHandler>>

\* a handler's toMessage is called on a basic-message record
ToMessage(i, ctx) ==
    /\ TypeOf(handlers[i]) \in {"ActionMenu", "BasicMessage"}
    /\ rec.kind = "BasicMessageRecord"
    /\ message' = Projected("toMessage", handlers[i], rec, toMessage(handlers[i], rec))
    /\ menuHandler' = IF TypeOf(handlers[i]) = "ActionMenu"
                      THEN ConfigureFromContext(menuHandler, ctx)
                      ELSE menuHandler
    /\ UNCHANGED <<handlers, rec, classified, shown>>

\* normalize: classify, then the projection of the handler found
Normalize(ctx) ==
    LET i == classify(handlers, rec)
        r == RecordAfterClassify(handlers, rec)
    IN  /\ classified' = [ran |-> TRUE, n |-> Len(handlers), index |-> i,
                          handler |-> IF i = 0 THEN "none" ELSE handlers[i]]
        /\ rec' = r
        /\ message' = IF i = 0
                      THEN [NoMessage EXCEPT !.ran = TRUE, !.via = "normalize"]
                      ELSE Projected("normalize", handlers[i], r, toMessage(handlers[i], r))
        /\ menuHandler' = IF i # 0 /\ TypeOf(handlers[i]) = "ActionMenu"
                          THEN ConfigureFromContext(menuHandler, ctx)
                          ELSE menuHandler
        /\ UNCHANGED <<handlers, shown>>

\* the exchange record is a mutable object: its content is assigned a new
\* value by the record's owner; the outcomes of earlier calls described the
\* former content and are dropped
ContentChanges(c) ==
    /\ rec.kind = "BasicMessageRecord"
    /\ c # rec.content
    /\ rec' = [rec EXCEPT !.content = c]
    /\ classified' = NotClassified
    /\ message' = NoMessage
    /\ UNCHANGED <<handlers, shown, menuHandler>>

\* one record that is classified, projected and modified in place
NextMemo ==
    \/ Classify /\ UNCHANGED <<resolverVars, conv, restVars>>
    \/ \E i \in 1..Len(handlers), ctx \in MessageContexts :
          ToMessage(i, ctx) /\ UNCHANGED <<resolverVars, conv, restVars>>
    \/ \E c \in Contents : ContentChanges(c) /\ UNCHANGED <<resolverVars, conv, restVars>>

NextRegistry ==
    \/ \E h \in HandlerIds : Register(h) /\ UNCHANGED <<resolverVars, conv, restVars>>
    \/ Classify /\ UNCHANGED <<resolverVars, conv, restVars>>
    \/ \E i \in 1..Len(handlers) : ShouldDisplay(i) /\ UNCHANGED <<resolverVars, conv, restVars>>

\* registration and projection: records are turned into chat messages
NextProjection ==
    \/ \E h \in HandlerIds : Register(h) /\ UNCHANGED <<resolverVars, conv, restVars>>
    \/ \E i \in 1..Len(handlers), ctx \in MessageContexts :
          ToMessage(i, ctx) /\ UNCHANGED <<resolverVars, conv, restVars>>
    \/ \E ctx \in MessageContexts : Normalize(ctx) /\ UNCHANGED <<resolverVars, conv, restVars>>

---------------------------------------------------------------------------
(* Kanon overlays and OCA bundles *)

\* a section of an overlay (meta, labels, branding): absent, or an object
\* given by its keys
NoSection == [present |-> FALSE, f |-> <<>>]
Section(f) == [present |-> TRUE, f |-> f]

KanonOverlay(meta, labels, branding) ==
    [classification |-> Undef, meta |-> meta, labels |-> labels, branding |-> branding]

\* credentialDefinitionMetadata: with or without an overlay
NoOverlay == [hasOverlay |-> FALSE, overlay |-> KanonOverlay(NoSection, NoSection, NoSection)]
WithOverlay(o) == [hasOverlay |-> TRUE, overlay |-> o]

Lang(language) == IF language = "" THEN "en" ELSE language

MetaType == "spec/overlays/meta/1.0"
LabelType == "spec/overlays/label/1.0"
BrandingType == "aries/overlays/branding/0.1"

OverlayEntry(type, credDefId, lang, f) ==
    [type |-> type, capture_base |-> credDefId, language |-> lang, f |-> f]

NoBundle == [origin |-> "none", digest |-> "", classification |-> Undef, overlays |-> <<>>]

\* o.d || o.c with a slip: the compact key is read first
EitherKeyCompactFirst(o, d, c) == JsOr(Get(o, c), Get(o, d))

\* o.d || o.c: the descriptive key d, else the compact key c
EitherKey(o, d, c) == JsOr(Get(o, d), Get(o, c))

\* the default background colour with a slip: empty like its sibling fields
DefaultBackgroundEmpty == Str("")

DefaultBackground == Str("#FFFFFF")
DefaultHeader == ColorObj("#000000")
DefaultFooter == ColorObj("#000000")

convertMeta(meta) ==
    [ name |-> JsOr(Get(meta, "name"), Str("")),
      description |-> JsOr(Get(meta, "description"), Str("")),
      issuer |-> JsOr(Get(meta, "issuer"), Str("")),
      issuer_description |->
          JsOr(EitherKey(meta, "issuer_description", "issuerDescription"), Str("")),
      issuer_url |-> JsOr(EitherKey(meta, "issuer_url", "issuerUrl"), Str("")),
      credential_help_text |->
          JsOr(EitherKey(meta, "credential_help_text", "credentialHelpText"), Str("")),
      credential_support_url |->
          JsOr(EitherKey(meta, "credential_support_url", "credentialSupportUrl"), Str("")) ]

convertBranding(branding) ==
    [ logo |-> JsOr(Get(branding, "logo"), Str("")),
      background_color |->
          JsOr(EitherKey(branding, "background_color", "backgroundColor"), DefaultBackground),
      background_image |->
          JsOr(EitherKey(branding, "background_image", "backgroundImage"), Str("")),
      background_image_slice |->
          JsOr(EitherKey(branding, "background_image_slice", "backgroundImageSlice"), Str("")),
      primary_background_color |->
          JsOr(EitherKey(branding, "primary_background_color", "primaryBackgroundColor"),
               Str("")),
      secondary_background_color |->
          JsOr(EitherKey(branding, "secondary_background_color", "secondaryBackgroundColor"),
               Str("")),
      primary_attribute |->
          JsOr(EitherKey(branding, "primary_attribute", "primaryAttribute"), Str("")),
      secondary_attribute |->
          JsOr(EitherKey(branding, "secondary_attribute", "secondaryAttribute"), Str("")),
      header |-> JsOr(Get(branding, "header"), DefaultHeader),
      footer |-> JsOr(Get(branding, "footer"), DefaultFooter) ]

convertKanonOverlayToOCABundle(overlay, credDefId, language) ==
    LET lang == Lang(language)
        metaPart ==
            IF overlay.meta.present
            THEN <<OverlayEntry(MetaType, credDefId, lang, convertMeta(overlay.meta.f))>>
            ELSE <<>>
        labelPart ==
            IF overlay.labels.present
            THEN <<OverlayEntry(LabelType, credDefId, lang, overlay.labels.f)>>
            ELSE <<>>
        brandingPart ==
            IF overlay.branding.present
            THEN <<OverlayEntry(BrandingType, credDefId, lang, convertBranding(overlay.branding.f))>>
            ELSE <<>>
    IN  [origin |-> "kanon", digest |-> credDefId,
         classification |-> JsOr(overlay.classification, Str("")),
         overlays |-> metaPart \o labelPart \o brandingPart]

\* overlays.find(pred): the first entry of the wanted type (and language,
\* when lang is not ""), or an absent section
Find(overlays, type, lang) ==
    LET hits == { i \in 1..Len(overlays) :
                    /\ overlays[i].type = type
                    /\ (lang = "" \/ overlays[i].language = lang) }
    IN  IF hits = {} THEN NoSection
        ELSE Section(overlays[CHOOSE i \in hits : \A j \in hits : i <= j].f)

Attributes == <<"given">>

processBranding(raw) ==
    [ logo |-> Get(raw, "logo"),
      backgroundColor |-> JsOr(Get(raw, "background_color"), Get(raw, "backgroundColor")),
      backgroundImage |-> JsOr(Get(raw, "background_image"), Get(raw, "backgroundImage")),
      backgroundImageSlice |->
          JsOr(Get(raw, "background_image_slice"), Get(raw, "backgroundImageSlice")),
      primaryBackgroundColor |->
          JsOr(Get(raw, "primary_background_color"), Get(raw, "primaryBackgroundColor")),
      secondaryBackgroundColor |->
          JsOr(Get(raw, "secondary_background_color"), Get(raw, "secondaryBackgroundColor")),
      primaryAttribute |-> JsOr(Get(raw, "primary_attribute"), Get(raw, "primaryAttribute")),
      secondaryAttribute |-> JsOr(Get(raw, "secondary_attribute"), Get(raw, "secondaryAttribute")),
      issuedDateAttribute |->
          JsOr(Get(raw, "issued_date_attribute"), Get(raw, "issuedDateAttribute")),
      expiryDateAttribute |->
          JsOr(Get(raw, "expiry_date_attribute"), Get(raw, "expiryDateAttribute")),
      header |-> Get(raw, "header"),
      footer |-> Get(raw, "footer") ]

processMeta(m) ==
    [ name |-> Get(m, "name"),
      description |-> Get(m, "description"),
      issuer |-> Get(m, "issuer"),
      issuerDescription |-> Get(m, "issuer_description"),
      credentialHelpText |-> Get(m, "credential_help_text"),
      credentialSupportUrl |-> Get(m, "credential_support_url") ]

\* a CredentialOverlay; kind tells where it comes from: "kanon" is built
\* here, "default" stands for what the default resolver's resolveAllBundles
\* returns, "none" for undefined
processBundle(bundle, language) ==
    LET lang == Lang(language)
        metaOverlay == Find(bundle.overlays, MetaType, lang)
        labelOverlay == Find(bundle.overlays, LabelType, lang)
        rawBrandingOverlay == Find(bundle.overlays, BrandingType, "")
    IN  [kind |-> "kanon",
         bundle |-> bundle,
         presentationFields |->
             [i \in 1..Len(Attributes) |->
                 JsOr(Get(labelOverlay.f, Attributes[i]), Str(Attributes[i]))],
         metaOverlay |->
             IF metaOverlay.present THEN Section(processMeta(metaOverlay.f)) ELSE NoSection,
         brandingOverlay |->
             IF rawBrandingOverlay.present
             THEN Section(processBranding(rawBrandingOverlay.f))
             ELSE NoSection]

---------------------------------------------------------------------------
(* KanonOCABundleResolver *)

\* identifiers of a resolve call; "" is an identifier that is not given
Ident(credDefId, schemaId) == [credentialDefinitionId |-> credDefId, schemaId |-> schemaId]

CredDefIds == {"cdLocal", "cd1"}
Identifiers ==
    { Ident("", ""), Ident("cdLocal", ""), Ident("cd1", ""), Ident("cd1", "schemaLocal") }

Langs == {"", "fr"}

\* the bundle the default resolver finds in the local catalog, which holds
\* one for credential definition cdLocal and one for schema schemaLocal
superResolve(identifiers) ==
    IF identifiers.credentialDefinitionId = "cdLocal" \/ identifiers.schemaId = "schemaLocal"
    THEN [origin |-> "local",
          digest |-> IF identifiers.credentialDefinitionId = "cdLocal"
                     THEN "cdLocal" ELSE "schemaLocal",
          classification |-> Undef, overlays |-> <<>>]
    ELSE NoBundle

\* the result of a call: a bundle for resolve, a CredentialOverlay for
\* resolveAllBundles
NoResult == [kind |-> "none", bundle |-> NoBundle, presentationFields |-> <<>>,
             metaOverlay |-> NoSection, brandingOverlay |-> NoSection]
BundleResult(b) ==
    IF b = NoBundle THEN NoResult ELSE [NoResult EXCEPT !.kind = "bundle", !.bundle = b]
superResolveAllBundles(identifiers) ==
    [NoResult EXCEPT !.kind = "default", !.bundle = superResolve(identifiers)]

IdleCall ==
    [pc |-> "idle", op |-> "resolve", identifiers |-> Ident("", ""), language |-> "",
     early |-> TRUE, afterFailure |-> FALSE, outcome |-> "", fetched |-> NoBundle,
     trace |-> <<>>, result |-> NoResult]

\* Deliver with a slip: a bundle is handed out in the language asked for
DeliverInLanguage(op, bundle, language) ==
    IF op = "resolve"
    THEN BundleResult([bundle EXCEPT !.overlays =
                          [i \in 1..Len(bundle.overlays) |->
                              [bundle.overlays[i] EXCEPT !.language = Lang(language)]]])
    ELSE processBundle(bundle, language)

\* what a call returns for a bundle it holds
Deliver(op, bundle, language) ==
    IF op = "resolve" THEN BundleResult(bundle) ELSE processBundle(bundle, language)

\* GiveUp with a slip: resolveAllBundles hands out nothing as resolve does
GiveUpWithNothing(op, identifiers) ==
    IF op = "resolve" THEN NoResult ELSE BundleResult(superResolve(identifiers))

\* what a call returns when no source yielded a bundle
GiveUp(op, identifiers) ==
    IF op = "resolve" THEN NoResult ELSE superResolveAllBundles(identifiers)

\* fetchKanonOCA with a slip: metadata without an overlay is converted too
fetchKanonOCANoOverlayCheck(outcome, metadata, credDefId, language) ==
    IF outcome # "value" THEN NoBundle
    ELSE convertKanonOverlayToOCABundle(metadata.overlay, credDefId, language)

\* fetchKanonOCA with a slip: a failure yields the bundle of an empty overlay
fetchKanonOCAEmptyOnFailure(outcome, metadata, credDefId, language) ==
    IF outcome # "value" \/ ~metadata.hasOverlay
    THEN convertKanonOverlayToOCABundle(KanonOverlay(NoSection, NoSection, NoSection),
                                        credDefId, language)
    ELSE convertKanonOverlayToOCABundle(metadata.overlay, credDefId, language)

\* fetchKanonOCA once getCredentialDefinition has settled; outcome is
\* "value" (it resolved), "reject" (it rejected) or "throws" (reading the
\* result or converting it threw): undefined is NoBundle
fetchKanonOCA(outcome, metadata, credDefId, language) ==
    IF outcome # "value" THEN NoBundle
    ELSE IF ~metadata.hasOverlay THEN NoBundle
    ELSE convertKanonOverlayToOCABundle(metadata.overlay, credDefId, language)

Outcomes == {"value", "reject", "throws"}

Started == { c \in 1..MaxCalls : calls[c].pc # "idle" }

SetAgent ==
    /\ agent' = TRUE
    /\ UNCHANGED <<cachedOverlays, remote, calls, fetchCount>>

\* no call for this credential definition id has completed yet (noted on a
\* call when it starts; the resolver itself keeps no such record)
NoneCompleted(credDefId) ==
    \A d \in 1..MaxCalls :
        calls[d].identifiers.credentialDefinitionId = credDefId => calls[d].pc # "done"

\* a call for this credential definition id has returned after a remote
\* fetch that yielded no bundle (noted on a call when it starts, as above)
FailureCompleted(credDefId) ==
    \E d \in 1..MaxCalls :
        /\ calls[d].identifiers.credentialDefinitionId = credDefId
        /\ calls[d].pc = "done"
        /\ calls[d].trace = <<"local", "cache", "remote">>
        /\ calls[d].fetched = NoBundle

\* resolve / resolveAllBundles is called: it runs up to `await super.resolve`
Start(c, op, identifiers, language) ==
    /\ calls[c].pc = "idle"
    /\ \A d \in 1..MaxCalls : d < c => calls[d].pc # "idle"
    /\ calls' = [calls EXCEPT ![c] =
                   [IdleCall EXCEPT !.pc = "local", !.op = op,
                                    !.identifiers = identifiers, !.language = language,
                                    !.early = NoneCompleted(identifiers.credentialDefinitionId),
                                    !.afterFailure =
                                        FailureCompleted(identifiers.credentialDefinitionId)]]
    /\ UNCHANGED <<agent, cachedOverlays, remote, fetchCount>>

\* AfterLocal with a slip: the cache is consulted before the local catalog
AfterLocalCacheFirst(c) ==
    LET call == calls[c]
        credDefId == call.identifiers.credentialDefinitionId
        localBundle == superResolve(call.identifiers)
    IN  /\ call.pc = "local"
        /\ IF credDefId # "" /\ cachedOverlays[credDefId] # NoBundle
           THEN /\ calls' = [calls EXCEPT ![c] =
                      [call EXCEPT !.pc = "done", !.trace = <<"cache">>,
                                   !.result = Deliver(call.op, cachedOverlays[credDefId],
                                                      call.language)]]
                /\ UNCHANGED fetchCount
           ELSE IF localBundle # NoBundle
           THEN /\ calls' = [calls EXCEPT ![c] =
                      [call EXCEPT !.pc = "done", !.trace = <<"cache", "local">>,
                                   !.result = IF call.op = "resolve"
                                              THEN BundleResult(localBundle)
                                              ELSE superResolveAllBundles(call.identifiers)]]
                /\ UNCHANGED fetchCount
           ELSE IF credDefId # "" /\ agent
           THEN /\ calls' = [calls EXCEPT ![c] =
                      [call EXCEPT !.pc = "fetch", !.trace = <<"cache", "local", "remote">>]]
                /\ fetchCount' = [fetchCount EXCEPT ![credDefId] = @ + 1]
           ELSE /\ calls' = [calls EXCEPT ![c] =
                      [call EXCEPT !.pc = "done", !.trace = <<"cache", "local">>,
                                   !.result = GiveUp(call.op, call.identifiers)]]
                /\ UNCHANGED fetchCount
        /\ UNCHANGED <<agent, cachedOverlays, remote>>

\* the call resumes with the local catalog's answer and runs up to the await
\* inside fetchKanonOCA, or to its return
AfterLocal(c) ==
    LET call == calls[c]
        credDefId == call.identifiers.credentialDefinitionId
        localBundle == superResolve(call.identifiers)
    IN  /\ call.pc = "local"
        /\ IF localBundle # NoBundle
           THEN /\ calls' = [calls EXCEPT ![c] =
                      [call EXCEPT !.pc = "done", !.trace = <<"local">>,
                                   !.result = IF call.op = "resolve"
                                              THEN BundleResult(localBundle)
                                              ELSE superResolveAllBundles(call.identifiers)]]
                /\ UNCHANGED fetchCount
           ELSE IF credDefId # "" /\ cachedOverlays[credDefId] # NoBundle
           THEN /\ calls' = [calls EXCEPT ![c] =
                      [call EXCEPT !.pc = "done", !.trace = <<"local", "cache">>,
                                   !.result = Deliver(call.op, cachedOverlays[credDefId],
                                                      call.language)]]
                /\ UNCHANGED fetchCount
           ELSE IF credDefId # "" /\ agent
           THEN /\ calls' = [calls EXCEPT ![c] =
                      [call EXCEPT !.pc = "fetch", !.trace = <<"local", "cache", "remote">>]]
                /\ fetchCount' = [fetchCount EXCEPT ![credDefId] = @ + 1]
           ELSE /\ calls' = [calls EXCEPT ![c] =
                      [call EXCEPT !.pc = "done",
                                   !.trace = IF credDefId # "" THEN <<"local", "cache">>
                                             ELSE <<"local">>,
                                   !.result = GiveUp(call.op, call.identifiers)]]
                /\ UNCHANGED fetchCount
        /\ UNCHANGED <<agent, cachedOverlays, remote>>

\* getCredentialDefinition settles and fetchKanonOCA returns
FetchSettles(c, outcome) ==
    LET call == calls[c]
        credDefId == call.identifiers.credentialDefinitionId
        bundle == fetchKanonOCA(outcome, remote[credDefId], credDefId, call.language)
    IN  /\ call.pc = "fetch"
        /\ calls' = [calls EXCEPT ![c] =
              [call EXCEPT !.pc = "fetched", !.outcome = outcome, !.fetched = bundle]]
        /\ UNCHANGED <<agent, cachedOverlays, remote, fetchCount>>

\* the call resumes after `await this.fetchKanonOCA(...)`
AfterFetch(c) ==
    LET call == calls[c]
        credDefId == call.identifiers.credentialDefinitionId
    IN  /\ call.pc = "fetched"
        /\ IF call.fetched # NoBundle
           THEN /\ cachedOverlays' = [cachedOverlays EXCEPT ![credDefId] = call.fetched]
                /\ calls' = [calls EXCEPT ![c] =
                      [call EXCEPT !.pc = "done",
                                   !.result = Deliver(call.op, call.fetched, call.language)]]
           ELSE /\ calls' = [calls EXCEPT ![c] =
                      [call EXCEPT !.pc = "done",
                                   !.result = GiveUp(call.op, call.identifiers)]]
                /\ UNCHANGED cachedOverlays
        /\ UNCHANGED <<agent, remote, fetchCount>>

---------------------------------------------------------------------------
(* The overlays a credential definition's metadata can carry *)

Pair(d, c) == [d |-> d, c |-> c]

\* the logical branding fields that have a descriptive and a compact key:
\* those the conversion to a bundle reads, and the two date fields that only
\* processBundle reads
ConvertedBrandingPairs ==
    { Pair("background_color", "backgroundColor"),
      Pair("background_image", "backgroundImage"),
      Pair("background_image_slice", "backgroundImageSlice"),
      Pair("primary_background_color", "primaryBackgroundColor"),
      Pair("secondary_background_color", "secondaryBackgroundColor"),
      Pair("primary_attribute", "primaryAttribute"),
      Pair("secondary_attribute", "secondaryAttribute") }

DateBrandingPairs ==
    { Pair("issued_date_attribute", "issuedDateAttribute"),
      Pair("expiry_date_attribute", "expiryDateAttribute") }

BrandingPairs == ConvertedBrandingPairs \cup DateBrandingPairs

MetaPairs ==
    { Pair("issuer_description", "issuerDescription"),
      Pair("issuer_url", "issuerUrl"),
      Pair("credential_help_text", "credentialHelpText"),
      Pair("credential_support_url", "credentialSupportUrl") }

DescriptiveValues == {Undef, Str(""), Str("descriptive")}
CompactValues == {Undef, Str(""), Str("compact")}

\* an object that carries one logical field under both of its keys
TwoKeys(p, a, b) == [k \in {p.d, p.c} |-> IF k = p.d THEN a ELSE b]

FullCompactBranding ==
    [ logo |-> Str("logo.png"), backgroundColor |-> Str("#112233"),
      backgroundImage |-> Str("bg.png"), backgroundImageSlice |-> Str("slice.png"),
      primaryBackgroundColor |-> Str("#445566"), secondaryBackgroundColor |-> Str("#778899"),
      primaryAttribute |-> Str("given"), secondaryAttribute |-> Str("family"),
      issuedDateAttribute |-> Str("issued"), expiryDateAttribute |-> Str("expires"),
      header |-> ColorObj("#101010"), footer |-> ColorObj("#202020") ]

EmptyObject == [k \in {} |-> Undef]

BrandingInputs ==
    { TwoKeys(p, a, b) : p \in BrandingPairs, a \in DescriptiveValues, b \in CompactValues }
    \cup { [k \in {s} |-> v] : s \in {"logo"}, v \in {Str(""), Str("logo.png")} }
    \cup { [k \in {s} |-> v] : s \in {"header", "footer"}, v \in {Str(""), ColorObj("#101010")} }
    \cup { FullCompactBranding, EmptyObject }

FullCompactMeta ==
    [ name |-> Str("Student card"), description |-> Str("A card"), issuer |-> Str("School"),
      issuerDescription |-> Str("A school"), issuerUrl |-> Str("https://school.example"),
      credentialHelpText |-> Str("help"), credentialSupportUrl |-> Str("https://help.example") ]

MetaInputs ==
    { TwoKeys(p, a, b) : p \in MetaPairs, a \in DescriptiveValues, b \in CompactValues }
    \cup { FullCompactMeta, EmptyObject }

Labels == [given |-> Str("Given name")]

\* every overlay the conversion is tried on
Overlays ==
    { KanonOverlay(NoSection, NoSection, Section(b)) : b \in BrandingInputs }
    \cup { KanonOverlay(Section(m), NoSection, NoSection) : m \in MetaInputs }
    \cup { KanonOverlay(Section(FullCompactMeta), Section(Labels), Section(FullCompactBranding)),
           KanonOverlay(NoSection, NoSection, NoSection) }

\* the metadata the ledger may hold for cd1 while calls interleave
LedgerMetadata ==
    { NoOverlay,
      WithOverlay(KanonOverlay(Section(FullCompactMeta), Section(Labels),
                               Section(FullCompactBranding))),
      WithOverlay(KanonOverlay(NoSection, NoSection, Section(EmptyObject))),
      WithOverlay(KanonOverlay(NoSection, NoSection, Section([logo |-> Str("logo.png")]))),
      WithOverlay(KanonOverlay(Section(EmptyObject), NoSection, NoSection)) }

InitResolver ==
    /\ agent = FALSE
    /\ cachedOverlays = [id \in CredDefIds |-> NoBundle]
    /\ remote \in { [id \in CredDefIds |-> IF id = "cd1" THEN m ELSE NoOverlay] :
                      m \in LedgerMetadata }
    /\ calls = [c \in 1..MaxCalls |-> IdleCall]
    /\ fetchCount = [id \in CredDefIds |-> 0]

NextResolver ==
    \/ SetAgent /\ UNCHANGED <<registryVars, conv, restVars>>
    \/ \E c \in 1..MaxCalls, op \in {"resolve", "resolveAllBundles"},
          identifiers \in Identifiers, language \in Langs :
            Start(c, op, identifiers, language) /\ UNCHANGED <<registryVars, conv, restVars>>
    \/ \E c \in 1..MaxCalls : AfterLocal(c) /\ UNCHANGED <<registryVars, conv, restVars>>
    \/ \E c \in 1..MaxCalls, outcome \in Outcomes :
            FetchSettles(c, outcome) /\ UNCHANGED <<registryVars, conv, restVars>>
    \/ \E c \in 1..MaxCalls : AfterFetch(c) /\ UNCHANGED <<registryVars, conv, restVars>>

\* the most fetches after which a finished call's slot is still taken again
MaxFetches == 2

\* the caller has taken the result of a finished call: its slot is free for
\* the next call of a longer sequence
Forget(c) ==
    /\ calls[c].pc = "done"
    /\ \A id \in CredDefIds : fetchCount[id] < MaxFetches
    /\ calls' = [calls EXCEPT ![c] = IdleCall]
    /\ UNCHANGED <<agent, cachedOverlays, remote, fetchCount>>

\* sequences of setAgent, resolve and resolveAllBundles calls of any length
NextCache ==
    \/ SetAgent /\ UNCHANGED <<registryVars, conv, restVars>>
    \/ \E c \in 1..MaxCalls, op \in {"resolve", "resolveAllBundles"},
          identifiers \in Identifiers, language \in Langs :
            Start(c, op, identifiers, language) /\ UNCHANGED <<registryVars, conv, restVars>>
    \/ \E c \in 1..MaxCalls : AfterLocal(c) /\ UNCHANGED <<registryVars, conv, restVars>>
    \/ \E c \in 1..MaxCalls, outcome \in Outcomes :
            FetchSettles(c, outcome) /\ UNCHANGED <<registryVars, conv, restVars>>
    \/ \E c \in 1..MaxCalls : AfterFetch(c) /\ UNCHANGED <<registryVars, conv, restVars>>
    \/ \E c \in 1..MaxCalls : Forget(c) /\ UNCHANGED <<registryVars, conv, restVars>>

---------------------------------------------------------------------------
(* The two conversions applied to one overlay, as the remote path of       *)
(* resolveAllBundles applies them: fetchKanonOCA converts the overlay to a *)
(* bundle, processBundle turns the bundle into the compact form.           *)

InitOverlay ==
    conv \in { [stage |-> "fetched", overlay |-> o, language |-> l,
                bundle |-> NoBundle, out |-> NoResult] : o \in Overlays, l \in Langs }

Convert ==
    /\ conv.stage = "fetched"
    /\ conv' = [conv EXCEPT !.stage = "converted",
                            !.bundle = convertKanonOverlayToOCABundle(conv.overlay, "cd1",
                                                                      conv.language)]

Process ==
    /\ conv.stage = "converted"
    /\ conv' = [conv EXCEPT !.stage = "processed",
                            !.out = processBundle(conv.bundle, conv.language)]

NextOverlay ==
    \/ Convert /\ UNCHANGED <<registryVars, resolverVars, restVars>>
    \/ Process /\ UNCHANGED <<registryVars, resolverVars, restVars>>

---------------------------------------------------------------------------
(* JavaScript strings, character by character.  A string whose characters  *)
(* are looked at is a sequence of one-character strings.                   *)

UpperCase == <<"A", "B", "C", "D", "E", "F", "G", "H", "I", "J", "K", "L", "M", "N", "O", "P", "Q", "R", "S", "T", "U", "V", "W", "X", "Y", "Z">>
LowerCase == <<"a", "b", "c", "d", "e", "f", "g", "h", "i", "j", "k", "l", "m", "n", "o", "p", "q", "r", "s", "t", "u", "v", "w", "x", "y", "z">>

toLowerCaseChar(c) ==
    IF \E k \in 1..26 : UpperCase[k] = c
    THEN LowerCase[CHOOSE k \in 1..26 : UpperCase[k] = c]
    ELSE c

\* s.toLowerCase()
toLowerCase(s) == [i \in 1..Len(s) |-> toLowerCaseChar(s[i])]

\* s.includes(sub)
includes(s, sub) ==
    \E i \in 0..Len(s) : i + Len(sub) <= Len(s) /\ SubSeq(s, i + 1, i + Len(sub)) = sub

---------------------------------------------------------------------------
(* detectCredentialType *)

\* the display types
TRANSCRIPT == "transcript"
STUDENT_ID == "student_id"
DEFAULT == "default"

\* the literals the attribute names and the id are compared with
S_gpa == <<"g", "p", "a">>
S_termgpa == <<"t", "e", "r", "m", "g", "p", "a">>
S_cumulativegpa == <<"c", "u", "m", "u", "l", "a", "t", "i", "v", "e", "g", "p", "a">>
S_yearstart == <<"y", "e", "a", "r", "s", "t", "a", "r", "t">>
S_studentid == <<"s", "t", "u", "d", "e", "n", "t", "i", "d">>
S_studentnumber == <<"s", "t", "u", "d", "e", "n", "t", "n", "u", "m", "b", "e", "r">>
S_student_id == <<"s", "t", "u", "d", "e", "n", "t", "_", "i", "d">>
S_fullname == <<"f", "u", "l", "l", "n", "a", "m", "e">>
S_studentfullname == <<"s", "t", "u", "d", "e", "n", "t", "f", "u", "l", "l", "n", "a", "m", "e">>
S_transcript == <<"t", "r", "a", "n", "s", "c", "r", "i", "p", "t">>
S_first == <<"f", "i", "r", "s", "t">>
S_last == <<"l", "a", "s", "t">>
S_year_start == <<"y", "e", "a", "r", "_", "s", "t", "a", "r", "t">>
S_NHCS == <<"N", "H", "C", "S">>
S_PCS == <<"P", "C", "S">>
S_MDCPS == <<"M", "-", "D", "C", "P", "S">>
S_CFCC == <<"C", "F", "C", "C">>
S_Pender == <<"P", "e", "n", "d", "e", "r">>
S_Miami == <<"M", "i", "a", "m", "i">>
S_Hanover == <<"H", "a", "n", "o", "v", "e", "r">>

KnownPatterns == {S_NHCS, S_PCS, S_MDCPS, S_CFCC, S_Pender, S_Miami, S_Hanover}

\* attribute names that credentials carry
N_termGPA == <<"t", "e", "r", "m", "G", "P", "A">>
N_yearStart == <<"y", "e", "a", "r", "S", "t", "a", "r", "t">>
N_studentId == <<"s", "t", "u", "d", "e", "n", "t", "I", "d">>
N_StudentNumber == <<"S", "t", "u", "d", "e", "n", "t", "N", "u", "m", "b", "e", "r">>
N_fullName == <<"f", "u", "l", "l", "N", "a", "m", "e">>
N_studentFullName == <<"s", "t", "u", "d", "e", "n", "t", "F", "u", "l", "l", "N", "a", "m", "e">>
N_note == <<"n", "o", "t", "e">>

AttributeNames ==
    { N_termGPA, N_yearStart, S_year_start, N_studentId, N_StudentNumber, N_fullName, N_studentFullName, S_first, S_last, N_note }

\* credential definition ids; the empty one stands for missing metadata
IdNone == <<>>
IdTranscript == <<"d", "i", "d", ":", "k", "a", "n", "o", "n", ":", "T", "r", "a", "n", "s", "c", "r", "i", "p", "t", ":", "1">>
IdNHCS == <<"d", "i", "d", ":", "k", "a", "n", "o", "n", ":", "N", "H", "C", "S", ":", "1">>
IdLowerNhcs == <<"d", "i", "d", ":", "k", "a", "n", "o", "n", ":", "n", "h", "c", "s", ":", "1">>
IdMiami == <<"d", "i", "d", ":", "k", "a", "n", "o", "n", ":", "M", "i", "a", "m", "i", ":", "1">>
IdOther == <<"d", "i", "d", ":", "k", "a", "n", "o", "n", ":", "o", "t", "h", "e", "r", ":", "1">>

DetectIds == { IdNone, IdTranscript, IdNHCS, IdLowerNhcs, IdMiami, IdOther }

MaxAttributes == 3

\* a credential: the names of its attributes and its credential definition id
Credentials ==
    { [names |-> ns, credDefId |-> id] :
        ns \in { x \in SUBSET AttributeNames : Cardinality(x) <= MaxAttributes },
        id \in DetectIds }

hasGPA(c) ==
    \E n \in c.names :
        \/ includes(toLowerCase(n), S_gpa)
        \/ includes(toLowerCase(n), S_termgpa)
        \/ includes(toLowerCase(n), S_cumulativegpa)

hasYearStart(c) ==
    \E n \in c.names : toLowerCase(n) = S_yearstart \/ toLowerCase(n) = S_year_start

hasStudentId(c) ==
    \E n \in c.names :
        \/ toLowerCase(n) = S_studentid
        \/ toLowerCase(n) = S_studentnumber
        \/ toLowerCase(n) = S_student_id

hasStudentName(c) ==
    \E n \in c.names :
        \/ toLowerCase(n) = S_fullname
        \/ toLowerCase(n) = S_studentfullname
        \/ (toLowerCase(n) = S_first \/ toLowerCase(n) = S_last)

matchesKnownPattern(c) == \E f \in KnownPatterns : includes(c.credDefId, f)

\* detectCredentialType with a slip: the student-id checks come first
detectCredentialTypeStudentFirst(c) ==
    IF hasStudentId(c) /\ hasStudentName(c) THEN STUDENT_ID
    ELSE IF matchesKnownPattern(c) THEN STUDENT_ID
    ELSE IF hasGPA(c) \/ hasYearStart(c)
            \/ includes(toLowerCase(c.credDefId), S_transcript) THEN TRANSCRIPT
    ELSE DEFAULT

detectCredentialType(c) ==
    IF hasGPA(c) \/ hasYearStart(c)
       \/ includes(toLowerCase(c.credDefId), S_transcript) THEN TRANSCRIPT
    ELSE IF hasStudentId(c) /\ hasStudentName(c) THEN STUDENT_ID
    ELSE IF matchesKnownPattern(c) THEN STUDENT_ID
    ELSE DEFAULT

NotDetected == [ran |-> FALSE, type |-> DEFAULT]

InitCredential ==
    /\ credential \in Credentials
    /\ displayType = NotDetected

Detect ==
    /\ ~displayType.ran
    /\ displayType' = [ran |-> TRUE, type |-> detectCredentialType(credential)]
    /\ UNCHANGED credential

NextCredential ==
    \/ Detect /\ UNCHANGED <<registryVars, resolverVars, conv, chat, press, bubble, header, menuBubbles>>

---------------------------------------------------------------------------
(* The action list of the Chat screen *)

MaxFactories == 3

\* an entry of the action list; from tells which source contributed it
WorkflowAction(id, from) == [id |-> id, from |-> from]
NoAction == [id |-> "", from |-> "undefined"]

\* createSendProofRequestAction
createSendProofRequestAction(useVerifierCapability) ==
    IF ~useVerifierCapability THEN NoAction
    ELSE WorkflowAction("send-proof-request", "registry")

\* the action factories that can be registered: the send-proof-request
\* factory closed over either value of the flag, and a factory of the host
ActionFactories == {"sendProofRequest(true)", "sendProofRequest(false)", "hostAction"}

\* factory(context)
RunFactory(f) ==
    CASE f = "sendProofRequest(true)" -> createSendProofRequestAction(TRUE)
      [] f = "sendProofRequest(false)" -> createSendProofRequestAction(FALSE)
      [] OTHER -> WorkflowAction("host-action", "registry")

\* registry.getChatActions(context): what the factories return, in the
\* order of registration, without those that return undefined
getChatActions(factories) ==
    LET made == [i \in 1..Len(factories) |-> RunFactory(factories[i])]
        IsAction(a) == a # NoAction
    IN  SelectSeq(made, IsAction)

NoActions == [defined |-> FALSE, list |-> <<>>]
ActionList(l) == [defined |-> TRUE, list |-> l]

Ids(l) == { l[i].id : i \in 1..Len(l) }

\* the body of the actions memo
buildActions(useVerifierCapability, registry, actionContext, factories) ==
    LET defaultActions ==
            IF useVerifierCapability
            THEN <<WorkflowAction("send-proof-request", "default")>>
            ELSE <<>>
        existingIds == Ids(defaultActions)
        NotExisting(a) == a.id \notin existingIds
    IN  IF registry /\ actionContext
        THEN ActionList(defaultActions \o SelectSeq(getChatActions(factories), NotExisting))
        ELSE IF Len(defaultActions) > 0 THEN ActionList(defaultActions) ELSE NoActions

\* the dependencies of the memo that the model tells apart: the verifier
\* preference, the registry and the action context (defined with the agent)
MemoDeps(c) == <<c.useVerifierCapability, c.registry, c.agent>>

InitChat ==
    chat \in { [useVerifierCapability |-> v, registry |-> r, agent |-> FALSE,
                factories |-> <<>>, rendered |-> FALSE,
                deps |-> <<v, r, FALSE>>, actions |-> NoActions] :
               v \in BOOLEAN, r \in BOOLEAN }

\* the host registers an action factory with the registry
RegisterChatAction(f) ==
    /\ chat.registry
    /\ Len(chat.factories) < MaxFactories
    /\ chat' = [chat EXCEPT !.factories = Append(@, f)]

\* the verifier preference of the store changes
SetVerifierCapability(v) ==
    /\ v # chat.useVerifierCapability
    /\ chat' = [chat EXCEPT !.useVerifierCapability = v]

\* useAgent starts returning the agent
AgentReady ==
    /\ ~chat.agent
    /\ chat' = [chat EXCEPT !.agent = TRUE]

\* Chat renders: the memo recomputes when a dependency changed
RenderChat ==
    /\ (~chat.rendered \/ chat.deps # MemoDeps(chat))
    /\ chat' = [chat EXCEPT
                  !.rendered = TRUE,
                  !.deps = MemoDeps(chat),
                  !.actions = buildActions(chat.useVerifierCapability, chat.registry,
                                           chat.agent, chat.factories)]

NextChat ==
    \/ \E f \in ActionFactories :
          RegisterChatAction(f) /\ UNCHANGED <<registryVars, resolverVars, conv, credentialVars, press, bubble, header, menuBubbles>>
    \/ \E v \in BOOLEAN :
          SetVerifierCapability(v) /\ UNCHANGED <<registryVars, resolverVars, conv, credentialVars, press, bubble, header, menuBubbles>>
    \/ AgentReady /\ UNCHANGED <<registryVars, resolverVars, conv, credentialVars, press, bubble, header, menuBubbles>>
    \/ RenderChat /\ UNCHANGED <<registryVars, resolverVars, conv, credentialVars, press, bubble, header, menuBubbles>>

---------------------------------------------------------------------------
(* ActionMenuWorkflowHandler: wiring and handleActionButtonPress.  The     *)
(* call is suspended at each await; the awaited operation settles with a   *)
(* value or a rejection in a later step.                                   *)

Settlements == {"value", "reject"}

\* JSON.stringify({ workflowID, actionID: actionId, data: {} })
ActionJSON(workflowID, actionId) ==
    [workflowID |-> workflowID, actionID |-> actionId, data |-> "{}"]

\* JSON.stringify with a slip: the object is turned into a string as String does
JSONStringifyAsString(a) == "[object Object]"

\* the text JSON.stringify gives for the action object
JSONStringify(a) ==
    "{\"workflowID\":\"" \o a.workflowID \o "\",\"actionID\":\"" \o a.actionID
        \o "\",\"data\":" \o a.data \o "}"

NoSend == [connectionId |-> "", content |-> ActionJSON("", "")]

IdlePress ==
    [pc |-> "idle", actionId |-> "", workflowID |-> "", invitationLink |-> "",
     configured |-> FALSE, result |-> "none", warnings |-> 0, alerts |-> 0,
     errors |-> 0, infos |-> 0, sendArgs |-> NoSend, sent |-> <<>>,
     navigated |-> "none", failedOp |-> "none",
     ops |-> <<>>, existingOutOfBandRecord |-> FALSE, existingConnections |-> <<>>,
     navigatedTo |-> ""]

\* an operation of the agent (or the connection helper) is invoked and awaited
Invoke(p, op) == [p EXCEPT !.pc = op, !.ops = Append(@, op)]

Unconfigured(h) == ~h.agent \/ h.connectionId = ""

\* setAgent, setConnectionId, setNavigation, setLogger, setTranslation
SetHandlerAgent ==
    /\ menuHandler' = [menuHandler EXCEPT !.agent = TRUE]
    /\ UNCHANGED <<handlers, rec, classified, shown, message, press>>

SetConnectionId(id) ==
    /\ menuHandler' = [menuHandler EXCEPT !.connectionId = id]
    /\ UNCHANGED <<handlers, rec, classified, shown, message, press>>

SetNavigation ==
    /\ menuHandler' = [menuHandler EXCEPT !.navigation = TRUE]
    /\ UNCHANGED <<handlers, rec, classified, shown, message, press>>

SetLogger ==
    /\ menuHandler' = [menuHandler EXCEPT !.logger = TRUE]
    /\ UNCHANGED <<handlers, rec, classified, shown, message, press>>

SetTranslation ==
    /\ menuHandler' = [menuHandler EXCEPT !.t = TRUE]
    /\ UNCHANGED <<handlers, rec, classified, shown, message, press>>

\* configure: agent and connectionId are required, the rest is optional
Configure(id, navigation, logger, t) ==
    /\ menuHandler' = [agent |-> TRUE, connectionId |-> id, navigation |-> navigation,
                       logger |-> logger, t |-> t]
    /\ UNCHANGED <<handlers, rec, classified, shown, message, press>>

\* the start of handleActionButtonPress with a slip: no check of the wiring
StartPressUnchecked(h, actionId, workflowID, invitationLink) ==
    LET p == [IdlePress EXCEPT !.actionId = actionId, !.workflowID = workflowID,
                               !.invitationLink = invitationLink,
                               !.configured = ~Unconfigured(h)]
    IN  IF invitationLink # ""
        THEN [Invoke(p, "parseInvitation") EXCEPT
                       !.warnings = IF h.logger THEN 0 ELSE 1]
        ELSE [Invoke(p, "sendMessage") EXCEPT
                       !.sendArgs = [connectionId |-> h.connectionId,
                                     content |-> ActionJSON(workflowID, actionId)]]

\* handleActionButtonPress up to its first await (or to its return)
StartPress(h, actionId, workflowID, invitationLink) ==
    LET p == [IdlePress EXCEPT !.actionId = actionId, !.workflowID = workflowID,
                               !.invitationLink = invitationLink,
                               !.configured = ~Unconfigured(h)]
    IN  IF Unconfigured(h)
        THEN [p EXCEPT !.pc = "done", !.result = "resolved", !.warnings = 1]
        ELSE IF invitationLink # ""
        THEN [Invoke(p, "parseInvitation") EXCEPT
                       !.warnings = IF h.logger THEN 0 ELSE 1]
        ELSE [Invoke(p, "sendMessage") EXCEPT
                       !.sendArgs = [connectionId |-> h.connectionId,
                                     content |-> ActionJSON(workflowID, actionId)]]

\* the catch block with a slip: the error is logged and no alert is shown
CatchSilently(p, h, op) ==
    [p EXCEPT !.pc = "done", !.result = "resolved", !.failedOp = op,
              !.errors = @ + (IF h.logger THEN 1 ELSE 0)]

\* the catch block of handleConnectToInvitation
Catch(p, h, op) ==
    [p EXCEPT !.pc = "done", !.result = "resolved", !.failedOp = op,
              !.errors = @ + (IF h.logger THEN 1 ELSE 0),
              !.alerts = @ + 1]

\* the choice between the helper and the direct reception of the invitation
ConnectBranch(p, h) ==
    IF h.navigation /\ h.logger
    THEN Invoke(p, "connectFromScanOrDeepLink")
    ELSE Invoke(p, "receiveInvitation")

Press(actionId, workflowID, invitationLink) ==
    /\ press.pc \in {"idle", "done"}
    /\ press' = StartPress(menuHandler, actionId, workflowID, invitationLink)
    /\ UNCHANGED registryVars

AfterSendMessage(outcome) ==
    /\ press.pc = "sendMessage"
    /\ press' = IF outcome = "value"
                THEN [press EXCEPT !.pc = "done", !.result = "resolved",
                                   !.sent = Append(@, press.sendArgs)]
                ELSE [press EXCEPT !.pc = "done", !.result = "rejected",
                                   !.failedOp = "sendMessage"]
    /\ UNCHANGED registryVars

AfterParseInvitation(outcome) ==
    /\ press.pc = "parseInvitation"
    /\ press' = IF outcome = "value"
                THEN Invoke(press, "findByReceivedInvitationId")
                ELSE Catch(press, menuHandler, "parseInvitation")
    /\ UNCHANGED registryVars

AfterFindByReceivedInvitationId(outcome, existing) ==
    /\ press.pc = "findByReceivedInvitationId"
    /\ press' = IF outcome = "reject"
                THEN Catch(press, menuHandler, "findByReceivedInvitationId")
                ELSE IF existing
                THEN Invoke([press EXCEPT !.existingOutOfBandRecord = TRUE],
                            "findAllByOutOfBandId")
                ELSE ConnectBranch(press, menuHandler)
    /\ UNCHANGED registryVars

\* the settlement of findAllByOutOfBandId with a slip: after the navigation
\* to the existing chat the call goes on to connect
AfterFindAllByOutOfBandIdThenConnect(outcome, connections) ==
    /\ press.pc = "findAllByOutOfBandId"
    /\ press' = IF outcome = "reject"
                THEN Catch(press, menuHandler, "findAllByOutOfBandId")
                ELSE ConnectBranch([press EXCEPT
                                       !.existingConnections = connections,
                                       !.navigated = IF menuHandler.navigation /\ Len(connections) > 0
                                                     THEN "reset" ELSE "none",
                                       !.navigatedTo = IF menuHandler.navigation /\ Len(connections) > 0
                                                       THEN connections[1] ELSE ""],
                                   menuHandler)
    /\ UNCHANGED registryVars

AfterFindAllByOutOfBandId(outcome, connections) ==
    /\ press.pc = "findAllByOutOfBandId"
    /\ press' = IF outcome = "reject"
                THEN Catch(press, menuHandler, "findAllByOutOfBandId")
                ELSE IF Len(connections) > 0
                THEN [press EXCEPT !.pc = "done", !.result = "resolved",
                                   !.existingConnections = connections,
                                   !.infos = @ + (IF menuHandler.logger THEN 1 ELSE 0),
                                   !.navigated = IF menuHandler.navigation
                                                 THEN "reset" ELSE "none",
                                   !.navigatedTo = IF menuHandler.navigation
                                                   THEN connections[1] ELSE ""]
                ELSE ConnectBranch([press EXCEPT !.existingConnections = connections],
                                   menuHandler)
    /\ UNCHANGED registryVars

AfterConnectFromScanOrDeepLink(outcome) ==
    /\ press.pc = "connectFromScanOrDeepLink"
    /\ press' = IF outcome = "reject"
                THEN Catch(press, menuHandler, "connectFromScanOrDeepLink")
                ELSE [press EXCEPT !.pc = "done", !.result = "resolved",
                                   !.navigated = "connection"]
    /\ UNCHANGED registryVars

AfterReceiveInvitation(outcome) ==
    /\ press.pc = "receiveInvitation"
    /\ press' = IF outcome = "reject"
                THEN Catch(press, menuHandler, "receiveInvitation")
                ELSE [press EXCEPT !.pc = "done", !.result = "resolved",
                                   !.infos = @ + (IF menuHandler.logger THEN 1 ELSE 0)]
    /\ UNCHANGED registryVars

WorkflowIds == {"", "w1"}
\* what findAllByOutOfBandId may resolve to
ExistingConnectionLists == {<<>>, <<"c1">>, <<"c2", "c1">>}
InvitationLinks == {"", "https://invite"}

NextPress ==
    \/ SetHandlerAgent /\ UNCHANGED <<resolverVars, conv, credentialVars, chat, bubble, header, menuBubbles>>
    \/ \E id \in ConnectionIds :
          SetConnectionId(id) /\ UNCHANGED <<resolverVars, conv, credentialVars, chat, bubble, header, menuBubbles>>
    \/ SetNavigation /\ UNCHANGED <<resolverVars, conv, credentialVars, chat, bubble, header, menuBubbles>>
    \/ SetLogger /\ UNCHANGED <<resolverVars, conv, credentialVars, chat, bubble, header, menuBubbles>>
    \/ SetTranslation /\ UNCHANGED <<resolverVars, conv, credentialVars, chat, bubble, header, menuBubbles>>
    \/ \E id \in ConnectionIds, n \in BOOLEAN, l \in BOOLEAN, t \in BOOLEAN :
          Configure(id, n, l, t) /\ UNCHANGED <<resolverVars, conv, credentialVars, chat, bubble, header, menuBubbles>>
    \/ \E i \in 1..Len(handlers), ctx \in MessageContexts :
          ToMessage(i, ctx) /\ UNCHANGED <<resolverVars, conv, credentialVars, chat, press, bubble, header, menuBubbles>>
    \/ \E w \in WorkflowIds, link \in InvitationLinks :
          Press("a1", w, link) /\ UNCHANGED <<resolverVars, conv, credentialVars, chat, bubble, header, menuBubbles>>
    \/ \E o \in Settlements :
          AfterSendMessage(o) /\ UNCHANGED <<resolverVars, conv, credentialVars, chat, bubble, header, menuBubbles>>
    \/ \E o \in Settlements :
          AfterParseInvitation(o) /\ UNCHANGED <<resolverVars, conv, credentialVars, chat, bubble, header, menuBubbles>>
    \/ \E o \in Settlements, existing \in BOOLEAN :
          AfterFindByReceivedInvitationId(o, existing)
          /\ UNCHANGED <<resolverVars, conv, credentialVars, chat, bubble, header, menuBubbles>>
    \/ \E o \in Settlements, cs \in ExistingConnectionLists :
          AfterFindAllByOutOfBandId(o, cs)
          /\ UNCHANGED <<resolverVars, conv, credentialVars, chat, bubble, header, menuBubbles>>
    \/ \E o \in Settlements :
          AfterConnectFromScanOrDeepLink(o)
          /\ UNCHANGED <<resolverVars, conv, credentialVars, chat, bubble, header, menuBubbles>>
    \/ \E o \in Settlements :
          AfterReceiveInvitation(o) /\ UNCHANGED <<resolverVars, conv, credentialVars, chat, bubble, header, menuBubbles>>

---------------------------------------------------------------------------
(* BasicMessageWorkflowHandler.toMessage: the tappable links of a message. *)
(* LINK_REGEX is matched character by character.                          *)

Digits == {"0", "1", "2", "3", "4", "5", "6", "7", "8", "9"}
Letters == { UpperCase[k] : k \in 1..26 } \cup { LowerCase[k] : k \in 1..26 }

\* \w, \S and [\w\d._-]
IsWordChar(c) == c \in Letters \cup Digits \cup {"_"}
IsNonSpace(c) == c \notin {" ", "\n", "\t"}
IsLocalChar(c) == IsWordChar(c) \/ c \in {".", "-"}

S_http == <<"h", "t", "t", "p">>
S_colonSlashes == <<":", "/", "/">>
S_mailto == <<"m", "a", "i", "l", "t", "o", ":">>

\* pieces that message contents are made of
F_visit == <<"v", "i", "s", "i", "t", " ">>
F_orMail == <<" ", "o", "r", " ", "m", "a", "i", "l", " ">>
F_url == <<"h", "t", "t", "p", "s", ":", "/", "/", "e", "x", "a", "m", "p", "l", "e", ".", "c", "o", "m">>
F_mail == <<"m", "e", "@", "x", ".", "c", "o", "m">>
F_upperUrl == <<"H", "T", "T", "P", ":", "/", "/", "A", ".", "B", "/", "c", "?", "d", "=", "1">>
F_localhost == <<"h", "t", "t", "p", ":", "/", "/", "l", "o", "c", "a", "l", "h", "o", "s", "t">>
F_noDot == <<"x", "@", "y">>
F_longMail == <<"a", ".", "b", "-", "c", "@", "d", ".", "e", ".", "f">>
F_comma == <<",">>
F_dot == <<".">>
F_userUrl == <<"h", "t", "t", "p", "s", ":", "/", "/", "u", "@", "h", ".", "i", "o">>
F_newline == <<"\n">>

Fragments ==
    { F_visit, F_orMail, F_url, F_mail, F_upperUrl, F_localhost,
      F_noDot, F_longMail, F_comma, F_dot, F_userUrl, F_newline }

MaxFragments == 3

RECURSIVE Concat(_)
Concat(fs) == IF fs = <<>> THEN <<>> ELSE Head(fs) \o Concat(Tail(fs))

\* 'visit https://example.com or mail me@x.com'
ExampleContent == Concat(<<F_visit, F_url, F_orMail, F_mail>>)

\* the contents: up to MaxFragments pieces, one after the other
LinkContents ==
    { Concat(fs) : fs \in UNION { [1..n -> Fragments] : n \in 0..MaxFragments } }
    \cup {ExampleContent}

\* the index after the longest run of characters with P that starts at i
RunEnd(s, i, P(_)) ==
    CHOOSE j \in i..(Len(s) + 1) :
        /\ \A k \in i..(j - 1) : P(s[k])
        /\ (j = Len(s) + 1 \/ ~P(s[j]))

\* (?:\.\w+)+ from j, greedy: the index after the last group; j when there
\* is no group
RECURSIVE DotWordsEnd(_, _)
DotWordsEnd(s, j) ==
    IF j + 1 <= Len(s) /\ s[j] = "." /\ IsWordChar(s[j + 1])
    THEN DotWordsEnd(s, RunEnd(s, j + 1, IsWordChar))
    ELSE j

\* \w+(?:\.\w+)+ from i: the index after the match, 0 without a match
HostEnd(s, i) ==
    LET w == RunEnd(s, i, IsWordChar)
        d == DotWordsEnd(s, w)
    IN  IF w > i /\ d > w THEN d ELSE 0

\* s has the characters of lit from i on, letter case ignored (flag i)
LiteralAt(s, i, lit) ==
    /\ i + Len(lit) - 1 <= Len(s)
    /\ toLowerCase(SubSeq(s, i, i + Len(lit) - 1)) = lit

\* https?:\/\/\w+(?:\.\w+)+\S* from i: the index after the match, 0 without
UrlEnd(s, i) ==
    IF ~LiteralAt(s, i, S_http) THEN 0
    ELSE LET p == IF i + 4 <= Len(s) /\ toLowerCaseChar(s[i + 4]) = "s"
                     /\ LiteralAt(s, i + 5, S_colonSlashes)
                  THEN i + 5 ELSE i + 4
         IN  IF ~LiteralAt(s, p, S_colonSlashes) THEN 0
             ELSE IF HostEnd(s, p + 3) = 0 THEN 0
             ELSE RunEnd(s, HostEnd(s, p + 3), IsNonSpace)

\* [\w\d._-]+@\w+(?:\.\w+)+ from i: the index after the match, 0 without
MailEnd(s, i) ==
    LET at == RunEnd(s, i, IsLocalChar) IN
    IF at > i /\ at <= Len(s) /\ s[at] = "@" THEN HostEnd(s, at + 1) ELSE 0

\* LINK_REGEX from i: the first alternative that matches
LinkEnd(s, i) == IF UrlEnd(s, i) # 0 THEN UrlEnd(s, i) ELSE MailEnd(s, i)

\* the matches of LINK_REGEX in s from i on (flag g), as index ranges
RECURSIVE Matches(_, _)
Matches(s, i) ==
    IF i > Len(s) THEN <<>>
    ELSE IF LinkEnd(s, i) # 0
         THEN <<[from |-> i, to |-> LinkEnd(s, i) - 1]>> \o Matches(s, LinkEnd(s, i))
         ELSE Matches(s, i + 1)

\* content.match(LINK_REGEX) ?? []
matchLinks(s) ==
    LET ms == Matches(s, 1) IN [k \in 1..Len(ms) |-> SubSeq(s, ms[k].from, ms[k].to)]

\* content.split(LINK_REGEX): the text before, between and after the matches
splitLinks(s) ==
    LET ms == Matches(s, 1)
        n == Len(ms)
    IN  [k \in 1..(n + 1) |->
            SubSeq(s, IF k = 1 THEN 1 ELSE ms[k - 1].to + 1,
                      IF k = n + 1 THEN Len(s) ELSE ms[k].from - 1)]

\* link.match(MAIL_REGEX): the whole link (one line) is a mail address
matchesMail(link) == MailEnd(link, 1) = Len(link) + 1 /\ Len(link) > 0

\* handleLinkPress with a slip: every link is opened as it is
linkTargetUnchanged(link) == link

\* handleLinkPress: what is given to Linking.openURL
linkTarget(link) == IF matchesMail(link) THEN S_mailto \o link ELSE link

Span(text, tappable, target) == [text |-> text, tappable |-> tappable, target |-> target]

\* renderEvent: each split, followed by its link while there is one
RECURSIVE renderSpans(_, _, _)
renderSpans(splits, links, k) ==
    IF k > Len(splits) THEN <<>>
    ELSE IF k <= Len(links)
         THEN <<Span(splits[k], FALSE, <<>>), Span(links[k], TRUE, linkTarget(links[k]))>>
              \o renderSpans(splits, links, k + 1)
         ELSE <<Span(splits[k], FALSE, <<>>)>> \o renderSpans(splits, links, k + 1)

NoBubble(content) ==
    [content |-> content, stage |-> "record", links |-> <<>>, spans |-> <<>>,
     opened |-> {}]

InitLinks == bubble \in { NoBubble(c) : c \in LinkContents }

\* toMessage: the links are taken from the content
ToMessageLinks ==
    /\ bubble.stage = "record"
    /\ bubble' = [bubble EXCEPT !.stage = "message", !.links = matchLinks(bubble.content)]

\* renderEvent: the content is split and the spans are laid out
RenderEvent ==
    /\ bubble.stage = "message"
    /\ bubble' = [bubble EXCEPT
                    !.stage = "rendered",
                    !.spans = renderSpans(splitLinks(bubble.content), bubble.links, 1)]

\* the user taps span k
PressLink(k) ==
    /\ bubble.stage = "rendered"
    /\ bubble.spans[k].tappable
    /\ bubble.spans[k].target \notin bubble.opened
    /\ bubble' = [bubble EXCEPT !.opened = @ \cup {bubble.spans[k].target}]

NextLinks ==
    \/ ToMessageLinks /\ UNCHANGED <<registryVars, resolverVars, conv, credentialVars, chat, press, header, menuBubbles>>
    \/ RenderEvent /\ UNCHANGED <<registryVars, resolverVars, conv, credentialVars, chat, press, header, menuBubbles>>
    \/ \E k \in 1..Len(bubble.spans) :
          PressLink(k) /\ UNCHANGED <<registryVars, resolverVars, conv, credentialVars, chat, press, header, menuBubbles>>

---------------------------------------------------------------------------
(* The Chat screen's header: the icons of ChatHeader and the bell's        *)
(* onShowMenu, suspended at its await.                                     *)

MaxBellPresses == 2

\* the chat screen config of the registry: a header renderer with its icon
\* components, and the two feature toggles
ChatScreenConfig(headerRenderer, bellIcon, infoIcon, showMenuButton, showInfoButton) ==
    [headerRenderer |-> headerRenderer, BellIconComponent |-> bellIcon,
     InfoIconComponent |-> infoIcon, showMenuButton |-> showMenuButton,
     showInfoButton |-> showInfoButton]

ChatScreenConfigs ==
    { ChatScreenConfig(TRUE, b, i, m, n) : b, i, m, n \in BOOLEAN }
    \cup { ChatScreenConfig(FALSE, FALSE, FALSE, m, n) : m, n \in BOOLEAN }

\* the props the Chat screen hands to headerRenderer.render: onInfo and
\* onMenuPress are always given, onShowMenu never
ChatHeaderProps(config) ==
    [onShowMenu |-> FALSE, onInfo |-> TRUE, onMenuPress |-> TRUE,
     showMenuButton |-> config.showMenuButton, showInfoButton |-> config.showInfoButton]

IconButton(icon, onPress) == [icon |-> icon, onPress |-> onPress]

\* ChatHeader: the right icons, the bell before the info icon
ChatHeader(props, options) ==
    (IF options.BellIconComponent /\ (props.showMenuButton \/ props.onShowMenu)
     THEN <<IconButton("bell", IF props.onMenuPress THEN "onMenuPress"
                               ELSE IF props.onShowMenu THEN "onShowMenu" ELSE "noop")>>
     ELSE <<>>)
    \o
    (IF options.InfoIconComponent /\ (props.showInfoButton \/ props.onInfo)
     THEN <<IconButton("info", IF props.onInfo THEN "onInfo" ELSE "noop")>>
     ELSE <<>>)

MenuSend(connectionId) == [connectionId |-> connectionId, content |-> ":menu"]

NewHeader(config, hasAgent, connectionId) ==
    [config |-> config, agent |-> hasAgent, connectionId |-> connectionId,
     rendered |-> FALSE, custom |-> FALSE, icons |-> <<>>,
     pc |-> "idle", result |-> "none", presses |-> 0, invoked |-> <<>>, sent |-> <<>>,
     swallowed |-> 0]

InitHeader ==
    header \in { NewHeader(c, a, id) :
                   c \in ChatScreenConfigs, a \in BOOLEAN, id \in ConnectionIds }

\* the header effect of the Chat screen: the custom header when the config
\* has a renderer, the stock title with the InfoIcon otherwise
RenderHeader ==
    /\ header' = [header EXCEPT
                    !.rendered = TRUE,
                    !.custom = header.config.headerRenderer,
                    !.icons = IF header.config.headerRenderer
                              THEN ChatHeader(ChatHeaderProps(header.config), header.config)
                              ELSE <<IconButton("info", "InfoIcon")>>]
    /\ UNCHANGED menuBubbles

Shows(h, icon) == \E k \in 1..Len(h.icons) : h.icons[k].icon = icon

\* onShowMenu up to its await: agent?.basicMessages.sendMessage is not
\* called when there is no agent
onShowMenu(h) ==
    IF h.agent
    THEN [h EXCEPT !.pc = "sendMessage", !.result = "none", !.presses = @ + 1,
                   !.invoked = Append(@, MenuSend(h.connectionId))]
    ELSE [h EXCEPT !.pc = "done", !.result = "resolved", !.presses = @ + 1]

\* the settlement with a slip: the rejection is not caught
settleShowMenuUncaught(h, outcome) ==
    IF outcome = "value"
    THEN [h EXCEPT !.pc = "done", !.result = "resolved",
                   !.sent = Append(@, h.invoked[Len(h.invoked)])]
    ELSE [h EXCEPT !.pc = "done", !.result = "rejected"]

\* onShowMenu from the settlement of sendMessage on: a rejection is caught
\* and dropped
settleShowMenu(h, outcome) ==
    IF outcome = "value"
    THEN [h EXCEPT !.pc = "done", !.result = "resolved",
                   !.sent = Append(@, h.invoked[Len(h.invoked)])]
    ELSE [h EXCEPT !.pc = "done", !.result = "resolved", !.swallowed = @ + 1]

\* the bell of the custom header is pressed: its onPress is onMenuPress,
\* which the Chat screen bound to onShowMenu
PressBell ==
    /\ header.rendered
    /\ \E k \in 1..Len(header.icons) :
          header.icons[k] = IconButton("bell", "onMenuPress")
    /\ header.pc \in {"idle", "done"}
    /\ header.presses < MaxBellPresses
    /\ header' = onShowMenu(header)
    /\ UNCHANGED menuBubbles

AfterSendMenu(outcome) ==
    /\ header.pc = "sendMessage"
    /\ header' = settleShowMenu(header, outcome)
    /\ UNCHANGED menuBubbles

NextHeader ==
    \/ RenderHeader /\ UNCHANGED <<registryVars, resolverVars, conv, credentialVars, chat, press, bubble>>
    \/ PressBell /\ UNCHANGED <<registryVars, resolverVars, conv, credentialVars, chat, press, bubble>>
    \/ \E o \in Settlements :
          AfterSendMenu(o) /\ UNCHANGED <<registryVars, resolverVars, conv, credentialVars, chat, press, bubble>>

---------------------------------------------------------------------------
(* One ActionMenuWorkflowHandler instance shared by the chats of several   *)
(* connections: every rendered menu binds its buttons to the same handler. *)

NoMenuBubbles == [order |-> <<>>, pressedFor |-> ""]

RenderedFor(b) == { b.order[k] : k \in 1..Len(b.order) }

\* toMessage on a menu record of the connection of ctx: the ActionMenuBubble
\* of that chat is rendered, its onActionPress bound to the handler
RenderMenu(i, ctx) ==
    /\ ToMessage(i, ctx)
    /\ menuBubbles' = IF TypeOf(handlers[i]) = "ActionMenu"
                         /\ ActionMenuToMessage(rec).render = "menu"
                         /\ ctx.connectionId \notin RenderedFor(menuBubbles) \cup {""}
                      THEN [menuBubbles EXCEPT !.order = Append(@, ctx.connectionId)]
                      ELSE menuBubbles
    /\ UNCHANGED press

\* a button without invitation link is pressed on the menu of connection id
PressButton(id, actionId, workflowID) ==
    /\ id \in RenderedFor(menuBubbles)
    /\ Press(actionId, workflowID, "")
    /\ menuBubbles' = [menuBubbles EXCEPT !.pressedFor = id]

NextShared ==
    \/ \E i \in 1..Len(handlers), ctx \in MessageContexts :
          RenderMenu(i, ctx) /\ UNCHANGED <<resolverVars, conv, credentialVars, chat, bubble, header>>
    \/ \E id \in ConnectionIds, w \in WorkflowIds :
          PressButton(id, "a1", w) /\ UNCHANGED <<resolverVars, conv, credentialVars, chat, bubble, header>>
    \/ \E o \in Settlements :
          AfterSendMessage(o) /\ UNCHANGED <<resolverVars, conv, credentialVars, chat, bubble, header, menuBubbles>>

---------------------------------------------------------------------------
(* Specifications *)

InitPress == press = IdlePress

Init ==
    /\ InitRegistry /\ InitResolver /\ InitOverlay
    /\ InitCredential /\ InitChat /\ InitPress /\ InitLinks
    /\ InitHeader /\ menuBubbles = NoMenuBubbles
Next ==
    \/ NextRegistry \/ NextProjection \/ NextMemo \/ NextResolver \/ NextOverlay
    \/ NextCredential \/ NextChat \/ NextPress \/ NextLinks \/ NextHeader \/ NextShared
Spec == Init /\ [][Next]_vars

IdleRecord == MkRecord("Other", "receiver", "")
IdleLedger == [id \in CredDefIds |-> NoOverlay]
IdleCredential == [names |-> {}, credDefId |-> IdNone]
IdleConv == [stage |-> "fetched", overlay |-> KanonOverlay(NoSection, NoSection, NoSection),
             language |-> "", bundle |-> NoBundle, out |-> NoResult]

\* the parts beside the registry, the resolver and the conversions at rest
IdleCredentialPart == credential = IdleCredential /\ displayType = NotDetected
IdleChat == [useVerifierCapability |-> FALSE, registry |-> FALSE, agent |-> FALSE,
             factories |-> <<>>, rendered |-> FALSE,
             deps |-> <<FALSE, FALSE, FALSE>>, actions |-> NoActions]
IdleBubble == NoBubble(<<>>)
IdleHeader == NewHeader(ChatScreenConfig(FALSE, FALSE, FALSE, FALSE, FALSE), FALSE, "c1")
IdleScreen == header = IdleHeader /\ menuBubbles = NoMenuBubbles

IdleRest ==
    /\ IdleCredentialPart /\ chat = IdleChat /\ press = IdlePress /\ bubble = IdleBubble
    /\ IdleScreen

\* the registry alone: the resolver stays as constructed
InitRegistryOnly ==
    /\ IdleRest
    /\ InitRegistry
    /\ InitResolver
    /\ remote = IdleLedger
    /\ conv = IdleConv
SpecRegistry == InitRegistryOnly /\ [][NextRegistry]_vars

\* registration and projection alone
InitProjectionOnly ==
    /\ IdleRest
    /\ InitRegistry
    /\ InitResolver
    /\ remote = IdleLedger
    /\ conv = IdleConv
SpecProjection == InitProjectionOnly /\ [][NextProjection]_vars

\* one record under the action-menu handler, modified in place
InitMemoOnly ==
    /\ IdleRest
    /\ handlers = <<"menu1">>
    /\ rec \in { MkRecord("BasicMessageRecord", r, c) : r \in Roles, c \in Contents }
    /\ classified = NotClassified
    /\ shown = NotShown
    /\ message = NoMessage
    /\ menuHandler = NewMenuHandler
    /\ InitResolver
    /\ remote = IdleLedger
    /\ conv = IdleConv
SpecMemo == InitMemoOnly /\ [][NextMemo]_vars

\* the resolver alone: the registry stays empty
InitResolverOnly ==
    /\ IdleRest
    /\ InitResolver
    /\ InitRegistry
    /\ rec = IdleRecord
    /\ conv = IdleConv
SpecResolver == InitResolverOnly /\ [][NextResolver]_vars

\* the resolver alone, under call sequences of any length
InitCacheOnly ==
    /\ IdleRest
    /\ InitResolver
    /\ InitRegistry
    /\ rec = IdleRecord
    /\ conv = IdleConv
SpecCache == InitCacheOnly /\ [][NextCache]_vars

\* the conversions alone
InitOverlayOnly ==
    /\ IdleRest
    /\ InitOverlay
    /\ InitRegistry
    /\ rec = IdleRecord
    /\ InitResolver
    /\ remote = IdleLedger
SpecOverlay == InitOverlayOnly /\ [][NextOverlay]_vars

\* the registry, the resolver and the conversions at rest
IdleCore ==
    /\ InitRegistry
    /\ rec = IdleRecord
    /\ InitResolver
    /\ remote = IdleLedger
    /\ conv = IdleConv

\* detectCredentialType alone
InitCredentialOnly ==
    /\ IdleCore
    /\ InitCredential
    /\ chat = IdleChat
    /\ press = IdlePress
    /\ bubble = IdleBubble
    /\ IdleScreen
SpecCredential == InitCredentialOnly /\ [][NextCredential]_vars

\* the action list of the Chat screen alone
InitChatOnly ==
    /\ IdleCore
    /\ IdleCredentialPart
    /\ InitChat
    /\ press = IdlePress
    /\ bubble = IdleBubble
    /\ IdleScreen
SpecChat == InitChatOnly /\ [][NextChat]_vars

\* the action-menu handler alone: it is the one registered handler, and a
\* menu from the peer is the record it projects
InitPressOnly ==
    /\ handlers = <<"menu1">>
    /\ rec = MkRecord("BasicMessageRecord", "receiver", MenuFull)
    /\ classified = NotClassified
    /\ shown = NotShown
    /\ message = NoMessage
    /\ menuHandler = NewMenuHandler
    /\ InitResolver
    /\ remote = IdleLedger
    /\ conv = IdleConv
    /\ IdleCredentialPart
    /\ chat = IdleChat
    /\ InitPress
    /\ bubble = IdleBubble
    /\ IdleScreen
SpecPress == InitPressOnly /\ [][NextPress]_vars

\* the header of the Chat screen alone
InitHeaderOnly ==
    /\ IdleCore
    /\ IdleCredentialPart
    /\ chat = IdleChat
    /\ press = IdlePress
    /\ bubble = IdleBubble
    /\ InitHeader
    /\ menuBubbles = NoMenuBubbles
SpecHeader == InitHeaderOnly /\ [][NextHeader]_vars

\* one action-menu handler shared by the chats of the connections: it is
\* wired by toMessage alone
InitSharedOnly ==
    /\ handlers = <<"menu1">>
    /\ rec \in { MkRecord("BasicMessageRecord", r, c) : r \in Roles, c \in {MenuFull, MenuBare} }
    /\ classified = NotClassified
    /\ shown = NotShown
    /\ message = NoMessage
    /\ menuHandler = NewMenuHandler
    /\ InitResolver
    /\ remote = IdleLedger
    /\ conv = IdleConv
    /\ IdleCredentialPart
    /\ chat = IdleChat
    /\ InitPress
    /\ bubble = IdleBubble
    /\ header = IdleHeader
    /\ menuBubbles = NoMenuBubbles
SpecShared == InitSharedOnly /\ [][NextShared]_vars

\* the links of a plain-text message alone
InitLinksOnly ==
    /\ IdleCore
    /\ IdleCredentialPart
    /\ chat = IdleChat
    /\ press = IdlePress
    /\ InitLinks
    /\ IdleScreen
SpecLinks == InitLinksOnly /\ [][NextLinks]_vars

---------------------------------------------------------------------------
(* Properties of the registry and the handlers (SpecRegistry) *)

\* the handlers that were registered when the last classify call ran
ClassifiedList == SubSeq(handlers, 1, classified.n)

Accepting(hs, r) == { i \in 1..Len(hs) : canHandle(hs[i], r) }

Orders(n) == { p \in [1..n -> 1..n] : \A i, j \in 1..n : p[i] = p[j] => i = j }

Reorder(hs, p) == [i \in 1..Len(hs) |-> hs[p[i]]]

\* C1: classify returns the earliest-registered handler that accepts the
\* record: the accepting handler of least index; none when no handler
\* accepts; and when exactly one accepts, that one in every order of
\* registration.
C1_ClassifyEarliestMatch ==
    classified.ran =>
        LET hs == ClassifiedList
            acc == Accepting(hs, rec)
        IN  /\ acc = {} => classified.index = 0 /\ classified.handler = "none"
            /\ acc # {} =>
                  /\ classified.index \in acc
                  /\ \A j \in acc : classified.index <= j
                  /\ classified.handler = hs[classified.index]
            /\ Cardinality(acc) = 1 =>
                  \A p \in Orders(Len(hs)) :
                      LET q == Reorder(hs, p) IN
                      /\ classify(q, rec) # 0
                      /\ p[classify(q, rec)] = classified.index

\* two handlers with the same type tag both accept; the first registered wins
C1_Witness ==
    /\ classified.ran
    /\ classified.n = 3
    /\ handlers = <<"cred1", "basic2", "basic1">>
    /\ rec.kind = "BasicMessageRecord" /\ rec.content = "hello"
    /\ classified.handler = "basic2"

IsMenuPayload(r) ==
    r.kind = "BasicMessageRecord" /\ r.content \in {MenuFull, MenuBare, MenuAck}

MenuBeforePlainText(hs) ==
    \E i \in 1..Len(hs) :
        /\ TypeOf(hs[i]) = "ActionMenu"
        /\ \A j \in 1..Len(hs) : TypeOf(hs[j]) = "BasicMessage" => i < j

\* C3: a basic-message record whose content is JSON with an array field
\* displayData is classified to the action-menu handler, whatever other
\* handlers are registered, when the menu handler is registered before every
\* plain-text handler.
C3_MenuPayloadGoesToMenuHandler ==
    (classified.ran /\ IsMenuPayload(rec) /\ MenuBeforePlainText(ClassifiedList)) =>
        /\ classified.index # 0
        /\ TypeOf(classified.handler) = "ActionMenu"

C3_Witness ==
    /\ classified.ran
    /\ rec.content = MenuBare
    /\ handlers = <<"cred1", "menu1", "basic1">>
    /\ classified.handler = "menu1"

SelfSent(r) == r.role = "sender"

\* C4 as stated: the basic-message handler's shouldDisplay is false for a
\* self-sent ":menu" and for self-sent JSON, and true for every peer-sent
\* record whose content is ":menu" or JSON.
C4_AsStated ==
    (shown.ran /\ TypeOf(shown.handler) = "BasicMessage") =>
        /\ (SelfSent(rec) /\ rec.content = ":menu") => ~shown.value
        /\ (SelfSent(rec) /\ JsonParse(rec.content).ok) => ~shown.value
        /\ (~SelfSent(rec) /\ (rec.content = ":menu" \/ JsonParse(rec.content).ok)) =>
              shown.value

\* C4 amended: as stated, but a peer-sent record is shown only when its
\* content does not contain "received your message" (in any letter case).
C4_ShouldDisplay ==
    (shown.ran /\ TypeOf(shown.handler) = "BasicMessage") =>
        /\ (SelfSent(rec) /\ rec.content = ":menu") => ~shown.value
        /\ (SelfSent(rec) /\ JsonParse(rec.content).ok) => ~shown.value
        /\ (/\ ~SelfSent(rec)
            /\ (rec.content = ":menu" \/ JsonParse(rec.content).ok)
            /\ ~IncludesReceived(rec.content)) => shown.value

C4_Witness ==
    /\ shown.ran
    /\ TypeOf(shown.handler) = "BasicMessage"
    /\ ~SelfSent(rec)
    /\ rec.content = ActionJson
    /\ shown.value

---------------------------------------------------------------------------
(* Properties of the resolver (SpecResolver) *)

CredDefIdOf(c) == calls[c].identifiers.credentialDefinitionId

CallsFor(id) == { c \in Started : CredDefIdOf(c) = id }

Fetching(c) == calls[c].trace = <<"local", "cache", "remote">>

\* the fetch of call c has settled without yielding an overlay
FetchFailed(c) ==
    /\ calls[c].pc \in {"fetched", "done"}
    /\ Fetching(c)
    /\ (calls[c].outcome # "value" \/ ~remote[CredDefIdOf(c)].hasOverlay)

\* C2 as stated: when resolve calls for one credential definition id, all
\* started before the first of them completes, find no local bundle, have
\* an agent and a remote fetch that succeeds, getCredentialDefinition is
\* invoked at most once for the id and all callers receive the same bundle.
C2_AsStated ==
    \A id \in CredDefIds :
        LET cs == CallsFor(id) IN
        ( /\ remote[id].hasOverlay
          /\ \A c \in cs :
                /\ calls[c].op = "resolve"
                /\ superResolve(calls[c].identifiers) = NoBundle
                /\ calls[c].early
                /\ ~FetchFailed(c)
                /\ (calls[c].pc = "done" => calls[c].result # NoResult) )
        => /\ fetchCount[id] <= 1
           /\ \A c, d \in cs :
                 (calls[c].pc = "done" /\ calls[d].pc = "done") =>
                     calls[c].result = calls[d].result

IsPrefix(t, u) == Len(t) <= Len(u) /\ \A i \in 1..Len(t) : t[i] = u[i]

\* the step in which resolve call c resumes with the local catalog's answer
C5_Step(c) ==
    LET call == calls[c]
        id == call.identifiers.credentialDefinitionId
        localBundle == superResolve(call.identifiers)
        after == calls'[c]
    IN  (call.op = "resolve" /\ call.pc = "local" /\ after.pc # "local") =>
            /\ IsPrefix(after.trace, <<"local", "cache", "remote">>)
            /\ localBundle # NoBundle =>
                  /\ after.pc = "done"
                  /\ after.result = BundleResult(localBundle)
                  /\ after.trace = <<"local">>
                  /\ fetchCount' = fetchCount
            /\ (localBundle = NoBundle /\ id # "" /\ cachedOverlays[id] # NoBundle) =>
                  /\ after.pc = "done"
                  /\ after.result = BundleResult(cachedOverlays[id])
                  /\ after.trace = <<"local", "cache">>
                  /\ fetchCount' = fetchCount

\* C5: resolve consults the local catalog, then the cache, then the remote
\* source, and stops at the first that yields a bundle: a local bundle is
\* returned with the cache unread and no fetch issued; without a local
\* bundle a cached entry is returned with no fetch issued.
C5_SourcesInOrder == [][\A c \in 1..MaxCalls : C5_Step(c)]_vars

\* a resolve call that was served from the cache
C5_Witness ==
    \E c \in 1..MaxCalls :
        /\ calls[c].pc = "done" /\ calls[c].op = "resolve"
        /\ calls[c].trace = <<"local", "cache">>
        /\ calls[c].result.kind = "bundle"
        /\ calls[c].result.bundle.origin = "kanon"
        /\ fetchCount["cd1"] = 1

C6_Settled ==
    \A c \in 1..MaxCalls :
        FetchFailed(c) =>
            /\ calls[c].fetched = NoBundle
            /\ (calls[c].pc = "done" /\ calls[c].op = "resolve") => calls[c].result = NoResult

C6_Step ==
    \A c \in 1..MaxCalls :
        (FetchFailed(c) /\ calls[c].pc = "fetched" /\ calls'[c].pc = "done") =>
            cachedOverlays' = cachedOverlays

\* C6: when the remote fetch rejects, yields metadata without an overlay or
\* the conversion throws, resolve returns none and the step that returns
\* leaves the overlay cache as it was.
C6_FailedFetchReturnsNone == [][C6_Step /\ C6_Settled']_vars

C6_Witness ==
    \E c \in 1..MaxCalls :
        /\ calls[c].pc = "done" /\ calls[c].op = "resolve"
        /\ Fetching(c)
        /\ calls[c].outcome = "reject"
        /\ calls[c].result = NoResult
        /\ cachedOverlays["cd1"] = NoBundle

\* call c is a resolveAllBundles call that returned a compact branding
\* overlay built from a remotely fetched or cached bundle
ReturnedBranding(c) ==
    /\ calls[c].pc = "done"
    /\ calls[c].op = "resolveAllBundles"
    /\ calls[c].result.kind = "kanon"
    /\ calls[c].result.brandingOverlay.present

SourceBranding(c) == remote[CredDefIdOf(c)].overlay.branding.f

\* C8: when the fetched overlay's branding has neither background_color nor
\* backgroundColor, resolveAllBundles returns backgroundColor '#FFFFFF'; a
\* missing header or footer comes back with the colour '#000000'.
C8_DefaultColours ==
    \A c \in 1..MaxCalls :
        ReturnedBranding(c) =>
            LET src == SourceBranding(c)
                out == calls[c].result.brandingOverlay.f
            IN  /\ (Get(src, "background_color") = Undef /\ Get(src, "backgroundColor") = Undef)
                      => out.backgroundColor = Str("#FFFFFF")
                /\ Get(src, "header") = Undef => out.header = ColorObj("#000000")
                /\ Get(src, "footer") = Undef => out.footer = ColorObj("#000000")

C8_Witness ==
    \E c \in 1..MaxCalls :
        /\ ReturnedBranding(c)
        /\ SourceBranding(c) = [logo |-> Str("logo.png")]
        /\ calls[c].result.brandingOverlay.f.backgroundColor = Str("#FFFFFF")
        /\ calls[c].result.brandingOverlay.f.header = ColorObj("#000000")

\* C9 as stated: no field of the compact branding overlay that
\* resolveAllBundles returns for a fetched or cached bundle is undefined.
C9_AsStated ==
    \A c \in 1..MaxCalls :
        ReturnedBranding(c) =>
            \A k \in DOMAIN calls[c].result.brandingOverlay.f :
                calls[c].result.brandingOverlay.f[k] # Undef

---------------------------------------------------------------------------
(* Properties of the conversions (SpecOverlay) *)

\* the twelve fields of the compact branding overlay, each with the key it
\* has in the descriptive form
BrandingFields ==
    BrandingPairs \cup { Pair("logo", "logo"), Pair("header", "header"), Pair("footer", "footer") }

\* the overlay's branding is in compact form: it carries no descriptive key
CompactForm(src) == \A p \in BrandingPairs : Get(src, p.d) = Undef

\* C7 as stated, read in its favour (only non-empty values of a compact-form
\* overlay are compared): converting a branding overlay to the descriptive
\* form and back preserves the value of each of the twelve branding fields.
C7_AsStated ==
    ( /\ conv.stage = "processed"
      /\ conv.overlay.branding.present
      /\ CompactForm(conv.overlay.branding.f) )
    => \A p \in BrandingFields :
          LET v == Get(conv.overlay.branding.f, p.c) IN
          Truthy(v) =>
              /\ conv.out.brandingOverlay.present
              /\ conv.out.brandingOverlay.f[p.c] = v

BothCarried(src, p) == Get(src, p.d) # Undef /\ Get(src, p.c) # Undef

\* a section of the bundle under conversion, by overlay type
BundleSection(type) == Find(conv.bundle.overlays, type, "").f

\* C10 as stated: when the overlay carries both keys of a meta or branding
\* field, the bundle takes the descriptive key's value, whatever the two
\* values are.
C10_AsStated ==
    conv.stage \in {"converted", "processed"} =>
        /\ conv.overlay.branding.present =>
              \A p \in ConvertedBrandingPairs :
                  BothCarried(conv.overlay.branding.f, p) =>
                      BundleSection(BrandingType)[p.d] = conv.overlay.branding.f[p.d]
        /\ conv.overlay.meta.present =>
              \A p \in MetaPairs :
                  BothCarried(conv.overlay.meta.f, p) =>
                      BundleSection(MetaType)[p.d] = conv.overlay.meta.f[p.d]

DefaultOf(p) == IF p.d = "background_color" THEN Str("#FFFFFF") ELSE Str("")

\* what the bundle is to hold for a field carried under both keys
Preferred(src, p) ==
    IF Truthy(src[p.d]) THEN src[p.d]
    ELSE IF Truthy(src[p.c]) THEN src[p.c]
    ELSE DefaultOf(p)

\* C10 amended: the bundle takes the descriptive key's value when that value
\* is not empty; an empty descriptive value gives way to the compact key's
\* value, and to the field's default when that is empty too.
C10_DescriptivePreferred ==
    conv.stage \in {"converted", "processed"} =>
        /\ conv.overlay.branding.present =>
              \A p \in ConvertedBrandingPairs :
                  BothCarried(conv.overlay.branding.f, p) =>
                      BundleSection(BrandingType)[p.d] = Preferred(conv.overlay.branding.f, p)
        /\ conv.overlay.meta.present =>
              \A p \in MetaPairs :
                  BothCarried(conv.overlay.meta.f, p) =>
                      BundleSection(MetaType)[p.d] = Preferred(conv.overlay.meta.f, p)

C10_Witness ==
    /\ conv.stage = "converted"
    /\ conv.overlay.branding.present
    /\ conv.overlay.branding.f =
           TwoKeys(Pair("primary_attribute", "primaryAttribute"),
                   Str("descriptive"), Str("compact"))
    /\ BundleSection(BrandingType)["primary_attribute"] = Str("descriptive")

---------------------------------------------------------------------------
(* Properties of detectCredentialType (SpecCredential) *)

LowerNames(c) == { toLowerCase(n) : n \in c.names }

\* the Transcript rule: a name containing "gpa", a year-start name, or an id
\* containing "transcript"
TranscriptRule(c) ==
    \/ \E n \in LowerNames(c) : includes(n, S_gpa)
    \/ S_yearstart \in LowerNames(c)
    \/ S_year_start \in LowerNames(c)
    \/ includes(toLowerCase(c.credDefId), S_transcript)

StudentIdentifier(c) ==
    LowerNames(c) \cap {S_studentid, S_studentnumber, S_student_id} # {}

FullNameBearing(c) ==
    \/ LowerNames(c) \cap {S_fullname, S_studentfullname} # {}
    \/ (S_first \in LowerNames(c) /\ S_last \in LowerNames(c))

AllowListed(c) == \E f \in KnownPatterns : includes(c.credDefId, f)

\* the Identity-card rule
IdentityCardRule(c) == (StudentIdentifier(c) /\ FullNameBearing(c)) \/ AllowListed(c)

\* C11: the rules are tried in the order Transcript, Identity-card, Default
\* and the first that matches wins: {termGPA, yearStart} is a Transcript,
\* {studentId, fullName} an Identity-card, {note} a Default, and a
\* credential matching both the Transcript and the Identity-card rule is a
\* Transcript.
C11_OrderedFirstMatch ==
    displayType.ran =>
        /\ TranscriptRule(credential) => displayType.type = TRANSCRIPT
        /\ (~TranscriptRule(credential) /\ IdentityCardRule(credential)) =>
               displayType.type = STUDENT_ID
        /\ displayType.type = DEFAULT =>
               (~TranscriptRule(credential) /\ ~IdentityCardRule(credential))
        /\ (credential.names = {N_termGPA, N_yearStart}) => displayType.type = TRANSCRIPT
        /\ (credential.names = {N_studentId, N_fullName} /\ credential.credDefId = IdNone) =>
               displayType.type = STUDENT_ID
        /\ (credential.names = {N_note} /\ credential.credDefId = IdNone) =>
               displayType.type = DEFAULT

\* a credential matching both rules has been classified
C11_Witness ==
    /\ displayType.ran
    /\ TranscriptRule(credential)
    /\ IdentityCardRule(credential)
    /\ credential.names = {N_termGPA, N_studentId, N_fullName}
    /\ displayType.type = TRANSCRIPT

\* C12 as stated: without a Transcript match and without an allow-listed
\* fragment in the id, Identity-card is returned only with a student
\* identifier and a full-name alias or both first and last.
C12_AsStated ==
    (/\ displayType.ran
     /\ ~TranscriptRule(credential)
     /\ ~AllowListed(credential)
     /\ displayType.type = STUDENT_ID) =>
        (StudentIdentifier(credential) /\ FullNameBearing(credential))

---------------------------------------------------------------------------
(* Properties of the Chat screen's action list (SpecChat) *)

\* C13 as stated: the list built from the default actions followed by the
\* registry's chat actions holds no two entries with the same id.
C13_AsStated ==
    chat.rendered =>
        \A i, j \in 1..Len(chat.actions.list) :
            chat.actions.list[i].id = chat.actions.list[j].id => i = j

---------------------------------------------------------------------------
(* Properties of the projections (SpecProjection) *)

\* C17 as stated: for a record the handler's canHandle accepts, toMessage
\* returns a message carrying the record's id and creation time, with user
\* 'me' exactly when the record's role is Sender.
C17_AsStated ==
    (message.ran /\ message.by # "none" /\ message.accepted) =>
        /\ message.outcome = "message"
        /\ message.id = rec.id
        /\ message.createdAt = rec.createdAt
        /\ (message.user = "me" <=> rec.role = "sender")

\* C18 as stated: normalize returns none when no registered handler accepts
\* the record, and raises for no record.
C18_AsStated ==
    (message.ran /\ message.via = "normalize") =>
        /\ Accepting(ClassifiedList, rec) = {} => message.outcome = "none"
        /\ message.outcome # "throws"

---------------------------------------------------------------------------
(* Properties of handleActionButtonPress (SpecPress) *)

\* C14 as stated: a rejection of sendMessage during a button press without
\* invitation link does not leave handleActionButtonPress as a rejected
\* promise.
C14_AsStated ==
    (press.pc = "done" /\ press.configured /\ press.invitationLink = "") =>
        press.result # "rejected"

\* C15: a press on a handler whose agent or connection id is unset logs one
\* warning and does nothing else: nothing is sent, no invitation operation
\* is called, no alert is shown, nothing is logged or navigated, and the
\* call completes without an error.
C15_UnsetIsNoOp ==
    (press.pc # "idle" /\ ~press.configured) =>
        /\ press.pc = "done"
        /\ press.result = "resolved"
        /\ press.warnings = 1
        /\ press.alerts = 0
        /\ press.errors = 0
        /\ press.infos = 0
        /\ press.sendArgs = NoSend
        /\ press.sent = <<>>
        /\ press.navigated = "none"
        /\ press.failedOp = "none"

\* a button with an invitation link was pressed on a handler that has its
\* agent but no connection id
C15_Witness ==
    /\ press.pc = "done"
    /\ ~press.configured
    /\ press.invitationLink # ""
    /\ menuHandler.agent
    /\ menuHandler.connectionId = ""
    /\ press.warnings = 1

InvitationOps ==
    {"parseInvitation", "findByReceivedInvitationId", "findAllByOutOfBandId",
     "connectFromScanOrDeepLink", "receiveInvitation"}

\* C16: when one of the agent operations of the invitation path rejects,
\* exactly one alert is shown and handleActionButtonPress completes without
\* throwing.
C16_OneAlertOnRejection ==
    press.failedOp \in InvitationOps =>
        /\ press.invitationLink # ""
        /\ press.pc = "done"
        /\ press.result = "resolved"
        /\ press.alerts = 1

\* the helper rejected after the two lookups had succeeded
C16_Witness ==
    /\ press.failedOp = "connectFromScanOrDeepLink"
    /\ press.pc = "done"
    /\ press.alerts = 1
    /\ press.result = "resolved"

---------------------------------------------------------------------------
(* The overlay cache and the language (SpecResolver) *)

RemoteCalls(id) ==
    { c \in 1..MaxCalls :
        /\ calls[c].identifiers.credentialDefinitionId = id
        /\ \E i \in 1..Len(calls[c].trace) : calls[c].trace[i] = "remote" }

\* C19: the cache is keyed by credential definition id only: a resolve
\* served from the cache returns the bundle that an earlier call fetched and
\* built in that call's language, whatever language is asked for now, and
\* issues no remote fetch of its own.
C19_CacheIgnoresLanguage ==
    \A c2 \in 1..MaxCalls :
        LET call == calls[c2]
            id == call.identifiers.credentialDefinitionId
        IN  (/\ call.op = "resolve" /\ call.pc = "done"
             /\ call.trace = <<"local", "cache">>
             /\ call.result.kind = "bundle") =>
                /\ c2 \notin RemoteCalls(id)
                /\ fetchCount[id] = Cardinality(RemoteCalls(id))
                /\ \E c1 \in RemoteCalls(id) :
                      /\ c1 # c2
                      /\ calls[c1].pc = "done"
                      /\ calls[c1].fetched = call.result.bundle
                      /\ call.result.bundle =
                            convertKanonOverlayToOCABundle(remote[id].overlay, id,
                                                           calls[c1].language)

\* a bundle fetched for the default language was returned to a later call
\* that asked for French
C19_Witness ==
    \E c1, c2 \in 1..MaxCalls :
        /\ calls[c1].pc = "done" /\ calls[c1].language = ""
        /\ calls[c1].trace = <<"local", "cache", "remote">>
        /\ calls[c2].pc = "done" /\ calls[c2].op = "resolve" /\ calls[c2].language = "fr"
        /\ calls[c2].trace = <<"local", "cache">>
        /\ calls[c2].result.kind = "bundle"
        /\ Len(calls[c2].result.bundle.overlays) > 0
        /\ calls[c2].result.bundle.overlays[1].language = "en"
        /\ fetchCount["cd1"] = 1

---------------------------------------------------------------------------
(* Properties of the links of a plain-text message (SpecLinks) *)

IsWordSeq(t) == Len(t) > 0 /\ \A k \in 1..Len(t) : IsWordChar(t[k])

\* one or more groups of a dot followed by word characters
IsDotWordGroups(t) ==
    /\ Len(t) >= 2
    /\ t[1] = "."
    /\ IsWordChar(t[Len(t)])
    /\ \A k \in 1..Len(t) : IsWordChar(t[k]) \/ t[k] = "."
    /\ \A k \in 1..(Len(t) - 1) : ~(t[k] = "." /\ t[k + 1] = ".")

\* word characters followed by dotted groups, as in example.com
IsHost(t) ==
    \E w \in 1..(Len(t) - 2) :
        IsWordSeq(SubSeq(t, 1, w)) /\ IsDotWordGroups(SubSeq(t, w + 1, Len(t)))

Schemes == { S_http \o S_colonSlashes, S_http \o <<"s">> \o S_colonSlashes }

\* http:// or https://, a host, then anything but white space
UrlLike(t) ==
    \E p \in {7, 8} :
        /\ p < Len(t)
        /\ toLowerCase(SubSeq(t, 1, p)) \in Schemes
        /\ \E h \in (p + 1)..Len(t) :
              /\ IsHost(SubSeq(t, p + 1, h))
              /\ \A k \in (h + 1)..Len(t) : IsNonSpace(t[k])

\* a local part, @, a host
MailLike(t) ==
    \E a \in 2..(Len(t) - 1) :
        /\ t[a] = "@"
        /\ \A k \in 1..(a - 1) : IsLocalChar(t[k])
        /\ IsHost(SubSeq(t, a + 1, Len(t)))

HoldsLink(t) ==
    \E a \in 1..Len(t) : \E b \in a..Len(t) :
        UrlLike(SubSeq(t, a, b)) \/ MailLike(SubSeq(t, a, b))

SpanTexts(spans) == Concat([k \in 1..Len(spans) |-> spans[k].text])

Targets(spans) ==
    LET IsTappable(sp) == sp.tappable
        taps == SelectSeq(spans, IsTappable)
    IN  [k \in 1..Len(taps) |-> taps[k].target]

\* C20: the rendered spans read, one after the other, as the content; plain
\* and tappable spans alternate; every tappable span is a URL-like or
\* email-like piece of the content and no plain span holds one; a tap opens
\* a URL-like piece as it is and an email-like piece behind 'mailto:'; the
\* example content gives the two targets https://example.com and
\* mailto:me@x.com.
C20_LinksMarked ==
    bubble.stage = "rendered" =>
        LET spans == bubble.spans IN
        /\ SpanTexts(spans) = bubble.content
        /\ \A k \in 1..Len(spans) : spans[k].tappable <=> (k % 2 = 0)
        /\ \A k \in 1..Len(spans) :
              IF spans[k].tappable
              THEN /\ UrlLike(spans[k].text) \/ MailLike(spans[k].text)
                   /\ spans[k].text = bubble.links[k \div 2]
                   /\ UrlLike(spans[k].text) =>
                         /\ spans[k].target = spans[k].text
                         /\ (spans[k + 1].text = <<>> \/ ~IsNonSpace(spans[k + 1].text[1]))
                   /\ MailLike(spans[k].text) => spans[k].target = S_mailto \o spans[k].text
              ELSE ~HoldsLink(spans[k].text)
        /\ bubble.opened \subseteq { Targets(spans)[k] : k \in 1..Len(Targets(spans)) }
        /\ bubble.content = ExampleContent =>
              Targets(spans) = <<F_url, S_mailto \o F_mail>>

\* both links of the example content were tapped
C20_Witness ==
    /\ bubble.stage = "rendered"
    /\ bubble.content = ExampleContent
    /\ Len(bubble.spans) = 5
    /\ bubble.opened = {F_url, S_mailto \o F_mail}

---------------------------------------------------------------------------
(* Claims C21..C30 *)

\* the type of the handler that classify picks from the list hs; "none"
\* when no handler accepts
ClassifiedType(hs, r) ==
    IF classify(hs, r) = 0 THEN "none" ELSE TypeOf(hs[classify(hs, r)])

\* C21: for every BasicMessageRecord exactly one of
\* ActionMenuWorkflowHandler.canHandle and BasicMessageWorkflowHandler.canHandle
\* returns true (content that is not JSON, JSON null, JSON scalars and JSON
\* objects whose displayData is not an array included), so the handler type a
\* basic-message record is classified to is the same in every order of
\* registration of the handlers.
C21_ExactlyOneAccepts ==
    rec.kind = "BasicMessageRecord" =>
        /\ ActionMenuCanHandle(rec) # BasicMessageCanHandle(rec)
        /\ classified.ran =>
              \A p \in Orders(Len(ClassifiedList)) :
                  ClassifiedType(Reorder(ClassifiedList, p), rec)
                      = ClassifiedType(ClassifiedList, rec)

\* a JSON object whose displayData is not an array, with both handlers
\* registered, the menu handler first
C21_Witness ==
    /\ classified.ran
    /\ classified.n = 2
    /\ handlers = <<"menu1", "basic1">>
    /\ rec.kind = "BasicMessageRecord" /\ rec.content = NotArrayJson
    /\ ~ActionMenuCanHandle(rec) /\ BasicMessageCanHandle(rec)
    /\ classified.handler = "basic1"

\* the record as it would be with nothing attached to it
Unattached(r) == [r EXCEPT !.parsedActionMenu = NoMenu]

\* C22 as stated: the parse that canHandle attaches to a record never goes
\* stale: whatever canHandle calls and changes of the record's content came
\* before, toMessage (and the getLabel call in it) gives what the menu parsed
\* from the record's current content gives, and a record that canHandle has
\* just refused carries no attached parse.
C22_AsStated ==
    /\ (classified.ran /\ classified.index = 0) => ~rec.parsedActionMenu.ok
    /\ (message.ran /\ message.via = "toMessage" /\ TypeOf(message.by) = "ActionMenu") =>
          message = Projected("toMessage", message.by, rec,
                              ActionMenuToMessage(Unattached(rec)))

\* the contents that are JSON with an array displayData
MenuPayloads == {MenuFull, MenuBare, MenuAck, MenuNull}

\* C23: a menu payload sent by the local user is never shown in the
\* timeline: the menu handler accepts it and its shouldDisplay is false (the
\* plain-text handler does not accept it, so no other shouldDisplay is asked),
\* while the same payload sent by the peer has shouldDisplay true.
C23_OwnMenuHidden ==
    (rec.kind = "BasicMessageRecord" /\ rec.content \in MenuPayloads) =>
        /\ ActionMenuCanHandle(rec)
        /\ ~BasicMessageCanHandle(rec)
        /\ ActionMenuShouldDisplay(rec) = (rec.role = "receiver")
        /\ shown.ran =>
              /\ TypeOf(shown.handler) = "ActionMenu"
              /\ shown.value = (rec.role = "receiver")

\* the menu handler was asked about a menu the local user sent
C23_Witness ==
    /\ shown.ran
    /\ shown.handler = "menu1"
    /\ rec.kind = "BasicMessageRecord" /\ rec.role = "sender" /\ rec.content = MenuFull
    /\ ~shown.value

ConnectOps == {"connectFromScanOrDeepLink", "receiveInvitation"}

Invoked(p) == { p.ops[k] : k \in 1..Len(p.ops) }

\* the press found a received invitation with at least one connection
FoundExisting(p) ==
    p.invitationLink # "" /\ p.existingOutOfBandRecord /\ Len(p.existingConnections) > 0

C24_Step ==
    /\ FoundExisting(press') =>
          /\ press'.pc = "done" /\ press'.result = "resolved"
          /\ Invoked(press') \cap ConnectOps = {}
          /\ press'.navigated \in {"none", "reset"}
          /\ press'.navigated = "reset" => press'.navigatedTo = press'.existingConnections[1]
    /\ (press.pc = "findAllByOutOfBandId" /\ FoundExisting(press') /\ menuHandler.navigation) =>
          /\ press'.navigated = "reset"
          /\ press'.navigatedTo = press'.existingConnections[1]
    /\ (press'.pc \in ConnectOps /\ press.pc # press'.pc) =>
          \/ press.pc = "findByReceivedInvitationId" /\ ~press'.existingOutOfBandRecord
          \/ press.pc = "findAllByOutOfBandId" /\ press'.existingConnections = <<>>

\* C24: when a menu button with an invitation link is pressed and the
\* parsed invitation was already received and has at least one existing
\* connection, the handler navigates to the chat of the first existing
\* connection (when navigation is set) and invokes neither
\* connectFromScanOrDeepLink nor receiveInvitation; these are invoked only
\* after the existing-connection lookup found none.
C24_ExistingConnectionReused == [][C24_Step]_vars

\* two connections exist for the invitation; the chat of the first is opened
C24_Witness ==
    /\ press.pc = "done"
    /\ press.invitationLink # ""
    /\ press.existingOutOfBandRecord
    /\ press.existingConnections = <<"c2", "c1">>
    /\ press.navigated = "reset"
    /\ press.navigatedTo = "c2"
    /\ press.ops = <<"parseInvitation", "findByReceivedInvitationId", "findAllByOutOfBandId">>

\* C27 as stated: one ActionMenuWorkflowHandler instance is shared by
\* several chats and wired by toMessage alone; after toMessage for a record
\* of connection A and later for a record of connection B, a button pressed
\* on the menu rendered for B sends the action message to connection B.
C27_AsStated ==
    (/\ Len(menuBubbles.order) = 2
     /\ menuBubbles.pressedFor = menuBubbles.order[2]
     /\ press.pc \in {"sendMessage", "done"}
     /\ press.configured) =>
        /\ press.sendArgs.connectionId = menuBubbles.pressedFor
        /\ \A k \in 1..Len(press.sent) : press.sent[k].connectionId = menuBubbles.pressedFor

\* C25 as stated: in the chat header as driven by the Chat screen, the info
\* icon is shown only if an InfoIconComponent is configured and
\* showInfoButton is true, and the bell icon only if a BellIconComponent is
\* configured and showMenuButton is true; with the toggle false the
\* corresponding icon is absent.
C25_AsStated ==
    (header.rendered /\ header.custom) =>
        /\ Shows(header, "info") =>
              header.config.InfoIconComponent /\ header.config.showInfoButton
        /\ Shows(header, "bell") =>
              header.config.BellIconComponent /\ header.config.showMenuButton
        /\ ~header.config.showInfoButton => ~Shows(header, "info")
        /\ ~header.config.showMenuButton => ~Shows(header, "bell")

\* the record that a sent message comes back as
SelfSentRecord(content) == MkRecord("BasicMessageRecord", "sender", content)

\* a self-sent record with this content goes to the plain-text handler and
\* is not displayed
HiddenFromTimeline(content) ==
    /\ BasicMessageCanHandle(SelfSentRecord(content))
    /\ ~ActionMenuCanHandle(SelfSentRecord(content))
    /\ ~BasicMessageShouldDisplay(SelfSentRecord(content))

BellSettled ==
    /\ header.result # "rejected"
    /\ \A k \in 1..Len(header.invoked) :
          /\ header.invoked[k] = MenuSend(header.connectionId)
          /\ HiddenFromTimeline(header.invoked[k].content)
    /\ Len(header.sent) + header.swallowed
          = Len(header.invoked) - (IF header.pc = "sendMessage" THEN 1 ELSE 0)

\* C30 as stated: every press of the header's bell sends exactly one
\* message, with the literal content ':menu', to the chat's connection; a
\* rejection of that send is swallowed without raising; the self-sent ':menu'
\* record is never displayed in the timeline.
C30_AsStated ==
    /\ Len(header.invoked) = header.presses
    /\ BellSettled

\* C30, amended: with an agent on the screen every press of the bell sends
\* exactly one ':menu' message to the chat's connection, and without an agent
\* a press sends nothing; a rejection of the send is swallowed without
\* raising; the self-sent ':menu' record is never displayed in the timeline.
C30_BellSendsMenu ==
    /\ Len(header.invoked) = (IF header.agent THEN header.presses ELSE 0)
    /\ BellSettled

\* the bell was pressed twice: one send went through, one was rejected
C30_Witness ==
    /\ header.agent
    /\ header.pc = "done"
    /\ header.presses = 2
    /\ header.invoked = <<MenuSend(header.connectionId), MenuSend(header.connectionId)>>
    /\ Len(header.sent) = 1
    /\ header.swallowed = 1
    /\ header.result = "resolved"

\* a press without invitation link that got past the wiring check
PlainPress(p) == p.pc \in {"sendMessage", "done"} /\ p.configured /\ p.invitationLink = ""

\* C28: a menu button press without invitation link on a configured handler
\* sends exactly one message, whose body is the JSON object
\* {workflowID, actionID, data: {}}; when that message comes back as a
\* self-sent record it is accepted by the plain-text handler and not by the
\* menu handler, and its shouldDisplay is false, so a workflow action sent by
\* the user never appears in the timeline.
C28_ActionSentAndHidden ==
    PlainPress(press) =>
        /\ press.ops = <<"sendMessage">>
        /\ press.sendArgs.content = ActionJSON(press.workflowID, press.actionId)
        /\ press.sendArgs.content.data = "{}"
        /\ press.sent \in {<<>>, <<press.sendArgs>>}
        /\ (press.pc = "done" /\ press.result = "resolved") => press.sent = <<press.sendArgs>>
        /\ JsonParse(JSONStringify(press.sendArgs.content)).ok
        /\ JsonParse(JSONStringify(press.sendArgs.content)).workflowID = Str(press.workflowID)
        /\ HiddenFromTimeline(JSONStringify(press.sendArgs.content))

\* the action of a menu without workflow id was sent
C28_Witness ==
    /\ PlainPress(press)
    /\ press.pc = "done" /\ press.result = "resolved"
    /\ press.workflowID = "" /\ press.actionId = "a1"
    /\ press.sent = <<[connectionId |-> "c2", content |-> ActionJSON("", "a1")]>>
    /\ JSONStringify(press.sent[1].content) = ActionJsonNoWorkflow

\* the step in which call c, of either operation, resumes after the local
\* lookup and finds the cache filled
C26_Step(c) ==
    LET call == calls[c]
        id == call.identifiers.credentialDefinitionId
        after == calls'[c]
    IN  (/\ call.pc = "local" /\ after.pc # "local"
         /\ superResolve(call.identifiers) = NoBundle
         /\ id # "" /\ cachedOverlays[id] # NoBundle) =>
            /\ after.pc = "done"
            /\ after.trace = <<"local", "cache">>
            /\ fetchCount' = fetchCount
            /\ cachedOverlays' = cachedOverlays
            /\ after.result = IF call.op = "resolve"
                              THEN BundleResult(cachedOverlays[id])
                              ELSE processBundle(cachedOverlays[id], call.language)

\* every cache entry is the bundle a call of either operation fetched
C26_Cached ==
    \A id \in CredDefIds :
        cachedOverlays[id] # NoBundle =>
            \E c \in RemoteCalls(id) :
                calls[c].pc = "done" /\ calls[c].fetched = cachedOverlays[id]

\* a resolveAllBundles call whose fetch failed returned the default result
C26_Fallback ==
    \A c \in 1..MaxCalls :
        (FetchFailed(c) /\ calls[c].pc = "done" /\ calls[c].op = "resolveAllBundles") =>
            /\ calls[c].result.kind = "default"
            /\ calls[c].result = superResolveAllBundles(calls[c].identifiers)

\* C26: resolve and resolveAllBundles share one cache: after either has
\* fetched and cached a remote bundle for a credential definition id, every
\* later call of either operation for that id (with no local bundle) uses the
\* cached bundle and issues no remote fetch; and when the remote fetch fails
\* resolveAllBundles falls back to the default resolver's result instead of
\* throwing.
C26_SharedCache ==
    [][(\A c \in 1..MaxCalls : C26_Step(c)) /\ C26_Cached' /\ C26_Fallback']_vars

\* a bundle that resolveAllBundles fetched was handed to a later resolve
C26_Witness ==
    /\ calls[1].pc = "done" /\ calls[1].op = "resolveAllBundles"
    /\ calls[1].trace = <<"local", "cache", "remote">>
    /\ calls[1].fetched # NoBundle
    /\ calls[2].pc = "done" /\ calls[2].op = "resolve"
    /\ calls[2].trace = <<"local", "cache">>
    /\ calls[2].result = BundleResult(calls[1].fetched)
    /\ cachedOverlays["cd1"] = calls[1].fetched
    /\ fetchCount["cd1"] = 1

\* a resolve call found no local bundle and has returned
ResolveDone(c) ==
    /\ calls[c].pc = "done" /\ calls[c].op = "resolve"
    /\ CredDefIdOf(c) # ""
    /\ superResolve(calls[c].identifiers) = NoBundle

\* C29 as stated: the overlay cache only grows and only holds successful
\* results, and a failed or overlay-less remote fetch writes no entry, so
\* every resolve for the credential definition id that comes after the
\* failed call issues a new remote fetch.
C29_AsStated ==
    \A c \in 1..MaxCalls :
        (ResolveDone(c) /\ calls[c].afterFailure) => c \in RemoteCalls(CredDefIdOf(c))

\* no entry leaves the cache
C29_Grows ==
    \A id \in CredDefIds : cachedOverlays[id] # NoBundle => cachedOverlays'[id] # NoBundle

\* an entry is written only by a call that returns the bundle it fetched
\* from metadata with an overlay
C29_Writes ==
    \A id \in CredDefIds :
        cachedOverlays'[id] # cachedOverlays[id] =>
            \E c \in 1..MaxCalls :
                /\ CredDefIdOf(c) = id
                /\ calls[c].pc = "fetched" /\ calls'[c].pc = "done"
                /\ ~FetchFailed(c)
                /\ calls[c].outcome = "value" /\ remote[id].hasOverlay
                /\ cachedOverlays'[id] = calls[c].fetched
                /\ calls[c].fetched =
                      convertKanonOverlayToOCABundle(remote[id].overlay, id, calls[c].language)

\* a failed fetch leaves the cache as it was
C29_FailureWritesNothing ==
    \A c \in 1..MaxCalls :
        (FetchFailed(c) /\ calls[c].pc = "fetched" /\ calls'[c].pc = "done") =>
            cachedOverlays' = cachedOverlays

\* with an agent, no local bundle and no cache entry a resolve fetches,
\* whatever fetches failed before
C29_FetchesAgain ==
    \A c \in 1..MaxCalls :
        LET call == calls[c]
            id == call.identifiers.credentialDefinitionId
        IN  (/\ call.op = "resolve"
             /\ call.pc = "local" /\ calls'[c].pc # "local"
             /\ superResolve(call.identifiers) = NoBundle
             /\ id # "" /\ agent /\ cachedOverlays[id] = NoBundle) =>
                /\ calls'[c].pc = "fetch"
                /\ fetchCount'[id] = fetchCount[id] + 1

\* C29, amended: the overlay cache only grows and only holds successful
\* results: no cache entry is ever removed, and a failed or overlay-less
\* remote fetch writes no entry, so a later resolve for that credential
\* definition id issues a new remote fetch as long as no other call has
\* cached a bundle for the id; once one has, later resolves are served from
\* the cache.
C29_CacheGrows ==
    [][C29_Grows /\ C29_Writes /\ C29_FailureWritesNothing /\ C29_FetchesAgain]_vars

\* after a failed fetch a later resolve fetched again, and nothing is cached
C29_Witness ==
    /\ FetchFailed(1) /\ calls[1].pc = "done"
    /\ ResolveDone(2) /\ calls[2].afterFailure
    /\ CredDefIdOf(1) = CredDefIdOf(2)
    /\ FetchFailed(2)
    /\ fetchCount["cd1"] = 2
    /\ cachedOverlays["cd1"] = NoBundle

===========================================================================
